---- MODULE Spec2Model ----
(***************************************************************************)
(* A model of the pcbrepair decode pipeline: the RC6 keystream cipher in   *)
(* 8-bit cipher-feedback mode (crypto.rs, decoder.rs), the container        *)
(* decoder with its three-way key trial and length/pointer framing          *)
(* (decoder.rs), and the section-tagged record parser (parser.rs).          *)
(*                                                                         *)
(* A u32 is the pair <<hi, lo>> of its 16-bit halves, so that every         *)
(* intermediate value of the wrapping arithmetic stays below 2^31.  A byte  *)
(* is a number in 0..255 and a buffer is a sequence of bytes.               *)
(***************************************************************************)
EXTENDS Integers, Sequences, FiniteSets, TLC

VARIABLES
  \* keystream cipher (crypto.rs encrypt / decrypt, one loop iteration per step)
  cdata,      \* the byte sequence handed to encrypt
  ckey,       \* the expanded key in use
  cphase,     \* "encrypt", "decrypt", "done", or "idle" between calls
  cpos,       \* number of bytes the running loop has processed
  creg,       \* the 16-byte feedback register `keystream`
  cenc,       \* the bytes encrypt has produced so far (its `result`)
  cdec,       \* the bytes decrypt has produced so far
  cks,        \* the keystream byte of the last iteration and the register it was computed from
  \* container decoder (decoder.rs from_filename)
  made,       \* the scenario the file was written from
  raw,        \* the bytes read from the file
  trials,     \* the try_process calls made so far, in order
  dresult,    \* what from_filename returned
  \* record parser (parser.rs Content::from_bytes)
  pstate,     \* ParserState
  units,      \* Units
  symbols, pins, testvias, graphic_data, classed_graphic_data,
  presult,    \* what from_bytes has returned, or that it is still running
  parsed,     \* the Content that from_bytes has returned, if it has
  hist,       \* the records consumed so far, each with the locals it met
  \* description parser (parser.rs Description::from_bytes)
  written,          \* the header fields and the table rows the description was written from
  description_str,  \* the characters of the description
  header,           \* the fields of line 0
  component_reader, \* the index in the description the reader has come to
  nth,              \* the number of records the reader has yielded
  components,       \* the Components pushed so far
  described,        \* what from_bytes has returned, or that it is still running
  \* interpreter (interpreter.rs from_parsed)
  icontent,         \* parsed.content: the unit and the pins
  npins,            \* the number of pins the first loop has taken
  footprint_pins,   \* the pins grouped by refdes, in millimeters
  footprints,       \* the footprints inserted so far
  interpreted,      \* what from_parsed has returned, or that it is still running
  \* the copy of the cipher in decoder.rs (decoder.rs decrypt)
  dec_key,          \* the schedule handed to decoder.rs decrypt
  dec_result        \* what decoder.rs decrypt has returned, or that it is not called yet

cvars == <<cdata, ckey, cphase, cpos, creg, cenc, cdec, cks>>
dvars == <<made, raw, trials, dresult>>
pvars == <<pstate, units, symbols, pins, testvias, graphic_data,
           classed_graphic_data, presult, parsed, hist>>
tvars == <<written, description_str, header, component_reader, nth, components,
           described>>
ivars == <<icontent, npins, footprint_pins, footprints, interpreted>>
evars == <<dec_key, dec_result>>
vars == <<cvars, dvars, pvars, tvars, ivars, evars>>

(***************************************************************************)
(* 32-bit words                                                            *)
(***************************************************************************)
W16 == 2^16

Pow2 == [r \in 0..16 |-> 2^r]

RECURSIVE XorN(_, _, _)
\* bitwise exclusive or of two n-bit numbers (the ^ operator)
XorN(x, y, n) ==
  IF n = 0 THEN 0
  ELSE ((x + y) % 2) + 2 * XorN(x \div 2, y \div 2, n - 1)

Xor4 == [x \in 0..15 |-> [y \in 0..15 |-> XorN(x, y, 4)]]

Xor8(x, y) == 16 * Xor4[x \div 16][y \div 16] + Xor4[x % 16][y % 16]

Xor16(x, y) == 256 * Xor8(x \div 256, y \div 256) + Xor8(x % 256, y % 256)

XorW(x, y) == <<Xor16(x[1], y[1]), Xor16(x[2], y[2])>>

\* u32::wrapping_add
WrappingAdd(x, y) ==
  LET lo == x[2] + y[2]
  IN  <<(x[1] + y[1] + (lo \div W16)) % W16, lo % W16>>

\* the low 16 bits of the product of two 16-bit numbers
MulLow16(a, b) == (a * (b % 256) + ((a * (b \div 256)) % 256) * 256) % W16

\* u32::wrapping_mul
WrappingMul(x, y) ==
  LET p1 == (x[2] \div 256) * y[2]
      l  == (x[2] % 256) * y[2] + (p1 % 256) * 256
  IN  <<((p1 \div 256) + (l \div W16) + MulLow16(x[1], y[2]) + MulLow16(x[2], y[1])) % W16,
        l % W16>>

\* u32::rotate_left by n bits, n taken modulo 32
RotateLeft(x, n) ==
  LET r == n % 32
      h == IF r >= 16 THEN x[2] ELSE x[1]
      l == IF r >= 16 THEN x[1] ELSE x[2]
      s == r % 16
  IN  <<((h * Pow2[s]) % W16) + (l \div Pow2[16 - s]),
        ((l * Pow2[s]) % W16) + (h \div Pow2[16 - s])>>

\* u32::from_le_bytes of the four bytes of b that start at 1-based index i
FromLeBytes(b, i) == <<b[i + 2] + 256 * b[i + 3], b[i] + 256 * b[i + 1]>>

\* u32::to_le_bytes
ToLeBytes(w) == <<w[2] % 256, w[2] \div 256, w[1] % 256, w[1] \div 256>>

(***************************************************************************)
(* RC6-32/20/16, encrypt direction only                                    *)
(***************************************************************************)
FZ_EXPANDED_KEY ==
  <<
    <<9688, 53832>>, <<57680, 9221>>, <<22197, 54406>>, <<26913, 16352>>,
    <<41508, 37100>>, <<509, 55802>>, <<1665, 38239>>, <<4012, 8237>>,
    <<56009, 61108>>, <<62978, 19130>>, <<52619, 19654>>, <<40752, 31886>>,
    <<19128, 64215>>, <<9007, 38525>>, <<24198, 26275>>, <<56982, 27979>>,
    <<50763, 64284>>, <<60031, 45202>>, <<6773, 6782>>, <<14312, 61628>>,
    <<13145, 51443>>, <<38554, 49707>>, <<24847, 22532>>, <<55709, 4326>>,
    <<50573, 21718>>, <<8090, 60043>>, <<36408, 35866>>, <<58615, 53997>>,
    <<15965, 41462>>, <<60926, 33162>>, <<29266, 45078>>, <<46339, 41328>>,
    <<50194, 36790>>, <<11411, 52971>>, <<21331, 39534>>, <<56015, 30312>>,
    <<15031, 36434>>, <<36585, 55317>>, <<28739, 63385>>, <<50848, 24015>>,
    <<29311, 7586>>, <<3581, 38971>>, <<30917, 14450>>, <<148, 22162>>
  >>

CAE_EXPANDED_KEY ==
  <<
    <<18303, 42658>>, <<64411, 24107>>, <<30652, 44119>>, <<11644, 61324>>,
    <<27010, 20866>>, <<64035, 4500>>, <<38638, 27976>>, <<21002, 39796>>,
    <<1561, 52064>>, <<38289, 36347>>, <<7298, 38769>>, <<1014, 25948>>,
    <<48035, 45826>>, <<62411, 52326>>, <<46126, 39623>>, <<16763, 14301>>,
    <<13445, 19340>>, <<63834, 38215>>, <<31056, 16414>>, <<49959, 8067>>,
    <<3708, 39534>>, <<53159, 63385>>, <<24941, 40197>>, <<8202, 49295>>,
    <<31963, 9263>>, <<12499, 48222>>, <<10627, 52265>>, <<40354, 18889>>,
    <<29961, 61461>>, <<26162, 22542>>, <<33572, 32516>>, <<25893, 60785>>,
    <<762, 9258>>, <<18353, 10536>>, <<32469, 7005>>, <<63132, 54555>>,
    <<26354, 19575>>, <<1064, 22201>>, <<227, 31088>>, <<34998, 25165>>,
    <<26662, 52598>>, <<53924, 51710>>, <<12031, 18554>>, <<2404, 36782>>
  >>

LOGW == 5

ROUNDS == 20

\* the schedule a try_process call is handed: Some(&FZ_EXPANDED_KEY) or Some(&CAE_EXPANDED_KEY)
KeyOf(name) == IF name = "FZ" THEN FZ_EXPANDED_KEY ELSE CAE_EXPANDED_KEY

\* expanded_key[i], i counted from 0 as in the source
KeyWord(key, i) == key[i + 1]

\* b.wrapping_mul(2u32.wrapping_mul(b) + 1).rotate_left(LOGW); 2b is even, so the
\* plain + 1 never overflows
QuadRot(b) ==
  LET twice == WrappingMul(<<0, 2>>, b)
  IN  RotateLeft(WrappingMul(b, <<twice[1], twice[2] + 1>>), LOGW)

\* the body of the round loop once t and u are known: the state <<a, b, c, d>>
\* after the rotation of the four words
Rc6Mix(s, t, u, key, i) ==
  <<s[2],
    WrappingAdd(RotateLeft(XorW(s[3], u), t[2]), KeyWord(key, 2 * i + 1)),
    s[4],
    WrappingAdd(RotateLeft(XorW(s[1], t), u[2]), KeyWord(key, 2 * i))>>

\* one pass of the round loop: the state <<a, b, c, d>> after round i
Rc6Round(s, key, i) == Rc6Mix(s, QuadRot(s[2]), QuadRot(s[4]), key, i)

RECURSIVE Rc6Rounds(_, _, _)
\* the state after rounds 1..i
Rc6Rounds(s, key, i) ==
  IF i = 0 THEN s ELSE Rc6Round(Rc6Rounds(s, key, i - 1), key, i)

\* the words after the last round, with the two output key words added
Rc6Output(s, key) ==
  <<WrappingAdd(s[1], KeyWord(key, 2 * ROUNDS + 2)), s[2],
    WrappingAdd(s[3], KeyWord(key, 2 * ROUNDS + 3)), s[4]>>

\* rc6_encrypt_block: the four output words <<a, b, c, d>>
Rc6EncryptBlock(block, key) ==
  Rc6Output(
    Rc6Rounds(<<FromLeBytes(block, 1),
                WrappingAdd(FromLeBytes(block, 5), KeyWord(key, 0)),
                FromLeBytes(block, 9),
                WrappingAdd(FromLeBytes(block, 13), KeyWord(key, 1))>>,
              key, ROUNDS),
    key)

\* the keystream byte of one iteration: a & 0xFF of the block cipher run on the register
KeystreamByte(reg, key) == Rc6EncryptBlock(reg, key)[1][2] % 256

ZeroRegister == <<0, 0, 0, 0, 0, 0, 0, 0, 0, 0, 0, 0, 0, 0, 0, 0>>

\* a register that moves the other way: the byte enters at index 0
ShiftOut(reg, byte) == <<byte>> \o SubSeq(reg, 1, 15)

\* keystream.copy_within(1..16, 0); keystream[15] = byte
ShiftIn(reg, byte) == Append(Tail(reg), byte)

\* what one loop iteration leaves: the keystream byte it used, the register and
\* the output byte
Iteration(k, reg, out) == [ks |-> k, reg |-> reg, out |-> out]

\* a loop body that feeds the register from its output, as encrypt's does
DecryptFeedingOutput(k, reg, x) == Iteration(k, ShiftIn(reg, Xor8(x, k)), Xor8(x, k))

\* decrypt's loop body on input byte x once the keystream byte k is known: the
\* register takes the input byte x, and the output is x ^ k
DecryptWith(k, reg, x) == Iteration(k, ShiftIn(reg, x), Xor8(x, k))

\* one iteration of decrypt's loop: the keystream byte comes from the register
\* as it stands before the shift
DecryptIteration(reg, x, key) == DecryptWith(KeystreamByte(reg, key), reg, x)

\* the register after encrypt's loop body has produced the output byte out
EncryptFeed(k, reg, out) == Iteration(k, ShiftIn(reg, out), out)

\* encrypt's loop body on input byte x once the keystream byte k is known: the
\* output is x ^ k, and the register takes the output byte
EncryptWith(k, reg, x) == EncryptFeed(k, reg, Xor8(x, k))

\* one iteration of encrypt's loop
EncryptIteration(reg, x, key) == EncryptWith(KeystreamByte(reg, key), reg, x)

(***************************************************************************)
(* encrypt and decrypt, one loop iteration per step                        *)
(***************************************************************************)
NoKeystream == [ks |-> 0, reg |-> ZeroRegister]

\* encrypt's loop body at position cpos
EncryptStep ==
  /\ cphase = "encrypt"
  /\ cpos < Len(cdata)
  /\ \E it \in {EncryptIteration(creg, cdata[cpos + 1], ckey)} :
       /\ cenc' = Append(cenc, it.out)
       /\ creg' = it.reg
       /\ cks' = [ks |-> it.ks, reg |-> creg]
  /\ cpos' = cpos + 1
  /\ UNCHANGED <<cdata, ckey, cphase, cdec>>

\* decrypt's loop body at position cpos
DecryptStep ==
  /\ cphase = "decrypt"
  /\ cpos < Len(cenc)
  /\ \E it \in {DecryptIteration(creg, cenc[cpos + 1], ckey)} :
       /\ cdec' = Append(cdec, it.out)
       /\ creg' = it.reg
       /\ cks' = [ks |-> it.ks, reg |-> creg]
  /\ cpos' = cpos + 1
  /\ UNCHANGED <<cdata, ckey, cphase, cenc>>

(***************************************************************************)
(* The round trip of test_decrypt                                          *)
(***************************************************************************)
MaxLen == 18

Seeds == {0, 18, 255}

Strides == {0, 34}

\* the data of test_decrypt
TestData == <<18, 52, 86, 120, 171, 205>>

ZeroSchedule == [i \in 1..44 |-> <<0, 0>>]

CipherKeys == {FZ_EXPANDED_KEY, CAE_EXPANDED_KEY, ZeroSchedule}

CipherInputs ==
  {TestData} \cup
  {[i \in 1..n |-> (seed + (i - 1) * stride) % 256] :
     n \in 0..MaxLen, seed \in Seeds, stride \in Strides}

\* encrypt returns; decrypt is called on its result and zeroes its own register
EncryptReturn ==
  /\ cphase = "encrypt"
  /\ cpos = Len(cdata)
  /\ cphase' = "decrypt"
  /\ cpos' = 0
  /\ creg' = ZeroRegister
  /\ cks' = NoKeystream
  /\ UNCHANGED <<cdata, ckey, cenc, cdec>>

\* decrypt returns its result
DecryptReturn ==
  /\ cphase = "decrypt"
  /\ cpos = Len(cenc)
  /\ cphase' = "done"
  /\ UNCHANGED <<cdata, ckey, cpos, creg, cenc, cdec, cks>>
(***************************************************************************)
(* The copy of the cipher in decoder.rs                                    *)
(***************************************************************************)
\* decoder.rs FZ_EXPANDED_KEY, each word as <<high 16 bits, low 16 bits>>
DECODER_FZ_EXPANDED_KEY ==
  <<
    <<9688, 53832>>, <<57680, 9221>>, <<22197, 54406>>, <<26913, 16352>>,
    <<41508, 37100>>, <<509, 55802>>, <<1665, 38239>>, <<4012, 8237>>,
    <<56009, 61108>>, <<62978, 19130>>, <<52619, 19654>>, <<40752, 31886>>,
    <<19128, 64215>>, <<9007, 38525>>, <<24198, 26275>>, <<56982, 27979>>,
    <<50763, 64284>>, <<60031, 45202>>, <<6773, 6782>>, <<14312, 61628>>,
    <<13145, 51443>>, <<38554, 49707>>, <<24847, 22532>>, <<55709, 4326>>,
    <<50573, 21718>>, <<8090, 60043>>, <<36408, 35866>>, <<58615, 53997>>,
    <<15965, 41462>>, <<60926, 33162>>, <<29266, 45078>>, <<46339, 41328>>,
    <<50194, 36790>>, <<11411, 52971>>, <<21331, 39534>>, <<56015, 30312>>,
    <<15031, 36434>>, <<36585, 55317>>, <<28739, 63385>>, <<50848, 24015>>,
    <<29311, 7586>>, <<3581, 38971>>, <<30917, 14450>>, <<148, 22162>>
  >>

\* decoder.rs CAE_EXPANDED_KEY
DECODER_CAE_EXPANDED_KEY ==
  <<
    <<18303, 42658>>, <<64411, 24107>>, <<30652, 44119>>, <<11644, 61324>>,
    <<27010, 20866>>, <<64035, 4500>>, <<38638, 27976>>, <<21002, 39796>>,
    <<1561, 52064>>, <<38289, 36347>>, <<7298, 38769>>, <<1014, 25948>>,
    <<48035, 45826>>, <<62411, 52326>>, <<46126, 39623>>, <<16763, 14301>>,
    <<13445, 19340>>, <<63834, 38215>>, <<31056, 16414>>, <<49959, 8067>>,
    <<3708, 39534>>, <<53159, 63385>>, <<24941, 40197>>, <<8202, 49295>>,
    <<31963, 9263>>, <<12499, 48222>>, <<10627, 52265>>, <<40354, 18889>>,
    <<29961, 61461>>, <<26162, 22542>>, <<33572, 32516>>, <<25893, 60785>>,
    <<762, 9258>>, <<18353, 10536>>, <<32469, 7005>>, <<63132, 54555>>,
    <<26354, 19575>>, <<1064, 22201>>, <<227, 31088>>, <<34998, 25165>>,
    <<26662, 52598>>, <<53924, 51710>>, <<12031, 18554>>, <<2404, 36782>>
  >>

DECODER_LOGW == 5

DECODER_ROUNDS == 20

\* 2u32.wrapping_mul(x) + 1: the product is even, so the + 1 does not overflow
DecoderTwicePlusOne(x) ==
  <<WrappingMul(<<0, 2>>, x)[1], WrappingMul(<<0, 2>>, x)[2] + 1>>

\* (x.wrapping_mul(2u32.wrapping_mul(x) + 1)).rotate_left(LOGW)
DecoderQuad(x) == RotateLeft(WrappingMul(x, DecoderTwicePlusOne(x)), DECODER_LOGW)

\* the body of `for i in 1..=ROUNDS` on the words w = [a, b, c, d], t and u
\* being the two rotated products: a and c are assigned, then the four words
\* move one place
DecoderRoundWith(w, t, u, expanded_key, i) ==
  [a |-> w.b,
   b |-> WrappingAdd(RotateLeft(XorW(w.c, u), t[2]), expanded_key[2 * i + 2]),
   c |-> w.d,
   d |-> WrappingAdd(RotateLeft(XorW(w.a, t), u[2]), expanded_key[2 * i + 1])]

DecoderRound(w, expanded_key, i) ==
  DecoderRoundWith(w, DecoderQuad(w.b), DecoderQuad(w.d), expanded_key, i)

RECURSIVE DecoderRounds(_, _, _)
\* the words after the passes 1..i of the loop
DecoderRounds(w, expanded_key, i) ==
  IF i = 0 THEN w
  ELSE DecoderRound(DecoderRounds(w, expanded_key, i - 1), expanded_key, i)

\* the four words read from the block, with b and d whitened
DecoderBlockWords(block, expanded_key) ==
  [a |-> FromLeBytes(block, 1),
   b |-> WrappingAdd(FromLeBytes(block, 5), expanded_key[1]),
   c |-> FromLeBytes(block, 9),
   d |-> WrappingAdd(FromLeBytes(block, 13), expanded_key[2])]

\* the words after the loop, a and c with the last two key words added
DecoderOutputWords(w, expanded_key) ==
  [w EXCEPT !.a = WrappingAdd(@, expanded_key[2 * DECODER_ROUNDS + 3]),
            !.c = WrappingAdd(@, expanded_key[2 * DECODER_ROUNDS + 4])]

\* decoder.rs rc6_encrypt_block: the words (a, b, c, d)
DecoderRc6EncryptBlock(block, expanded_key) ==
  DecoderOutputWords(
    DecoderRounds(DecoderBlockWords(block, expanded_key), expanded_key,
                  DECODER_ROUNDS),
    expanded_key)

\* a loop body that writes result[i] before the register takes it
DecoderLoopBodyXorFirst(loc, a, i) ==
  [result |-> [loc.result EXCEPT ![i + 1] = Xor8(@, a[2] % 256)],
   keystream |-> Append(Tail(loc.keystream), Xor8(loc.result[i + 1], a[2] % 256))]

\* the body of `for i in 0..result.len()` once a is known, loc being the locals
\* result and keystream: the register takes result[i], then result[i] ^= a & 0xFF
DecoderLoopBody(loc, a, i) ==
  [result |-> [loc.result EXCEPT ![i + 1] = Xor8(@, a[2] % 256)],
   keystream |-> Append(Tail(loc.keystream), loc.result[i + 1])]

RECURSIVE DecoderLoop(_, _, _)
\* the locals after the passes i.. of the loop
DecoderLoop(loc, expanded_key, i) ==
  IF i >= Len(loc.result) THEN loc
  ELSE DecoderLoop(
         DecoderLoopBody(loc, DecoderRc6EncryptBlock(loc.keystream, expanded_key).a, i),
         expanded_key, i + 1)

\* decoder.rs decrypt: result = data.to_vec(), keystream = [0u8; 16]
DecoderDecrypt(data, expanded_key) ==
  DecoderLoop([result |-> data, keystream |-> [k \in 1..16 |-> 0]], expanded_key, 0).result

(***************************************************************************)
(* Both copies of decrypt on one input                                     *)
(***************************************************************************)
\* the names of the two schedules, and a schedule of zeros as any other key
KeyNames == {"FZ", "CAE", "zero"}

\* the schedule crypto.rs holds under the name
CryptoKey(name) ==
  CASE name = "FZ" -> FZ_EXPANDED_KEY
    [] name = "CAE" -> CAE_EXPANDED_KEY
    [] OTHER -> [i \in 1..44 |-> <<0, 0>>]

\* the schedule decoder.rs holds under the name
DecoderKey(name) ==
  CASE name = "FZ" -> DECODER_FZ_EXPANDED_KEY
    [] name = "CAE" -> DECODER_CAE_EXPANDED_KEY
    [] OTHER -> [i \in 1..44 |-> <<0, 0>>]

\* decoder.rs decrypt has not been called
NotCalled == [status |-> "ready", bytes |-> <<>>]

\* decoder::decrypt(data, expanded_key) is called on the data crypto::decrypt
\* has and returns
DecoderDecryptCall ==
  /\ dec_result.status = "ready"
  /\ cphase \in {"decrypt", "done"}
  /\ cpos = 0 \/ cphase = "done"
  /\ \E bytes \in {DecoderDecrypt(cenc, dec_key)} :
       dec_result' = [status |-> "returned", bytes |-> bytes]
  /\ UNCHANGED dec_key

(***************************************************************************)
(* zlib streams (flate2's ZlibDecoder)                                     *)
(***************************************************************************)
ADLER_MOD == 65521

RECURSIVE Adler32(_, _, _, _)
\* the Adler-32 sums <<b, a>> of data[i..], continued from a and b
Adler32(data, i, a, b) ==
  IF i > Len(data) THEN <<b, a>>
  ELSE LET a2 == (a + data[i]) % ADLER_MOD
       IN  Adler32(data, i + 1, a2, (b + a2) % ADLER_MOD)

\* the checksum trailer of a zlib stream: Adler-32 of the data, big-endian
AdlerBytes(data) ==
  LET s == Adler32(data, 1, 1, 0)
  IN  <<s[1] \div 256, s[1] % 256, s[2] \div 256, s[2] % 256>>

\* a zlib stream holding data in one final stored block (what a level-0
\* compressor writes for data of fewer than 65536 bytes)
ZlibStore(data) ==
  <<120, 1, 1, Len(data) % 256, Len(data) \div 256,
    255 - (Len(data) % 256), 255 - (Len(data) \div 256)>>
  \o data \o AdlerBytes(data)

\* the n bits of v, most significant first
BitsMsb(v, n) == [i \in 1..n |-> (v \div 2^(n - i)) % 2]

\* the fixed code of a literal or of the end-of-block symbol, as it is written
FixedCode(sym) ==
  IF sym <= 143 THEN BitsMsb(48 + sym, 8)
  ELSE IF sym <= 255 THEN BitsMsb(400 + sym - 144, 9)
  ELSE BitsMsb(sym - 256, 7)

RECURSIVE FixedCodes(_, _)
\* the fixed codes of data[i..] as literals, and the end-of-block symbol
FixedCodes(data, i) ==
  IF i > Len(data) THEN FixedCode(256)
  ELSE FixedCode(data[i]) \o FixedCodes(data, i + 1)

\* the bytes that hold the bits, each filled from its least significant bit
PackBits(bits) ==
  [j \in 1..((Len(bits) + 7) \div 8) |->
     LET bit(i) == IF 8 * (j - 1) + i + 1 <= Len(bits) THEN bits[8 * (j - 1) + i + 1] ELSE 0
     IN  bit(0) + 2 * bit(1) + 4 * bit(2) + 8 * bit(3) + 16 * bit(4) + 32 * bit(5)
         + 64 * bit(6) + 128 * bit(7)]

\* a zlib stream holding data in one final block of fixed codes, all literals
\* (what a compressor at its default level writes for data too short to repeat)
ZlibFixed(data) ==
  <<120, 156>> \o PackBits(<<1, 1, 0>> \o FixedCodes(data, 1)) \o AdlerBytes(data)

\* the stream a tool writes for data: stored, or compressed with fixed codes
ZlibOf(data, pack) == IF pack = "stored" THEN ZlibStore(data) ELSE ZlibFixed(data)

\* the two-byte zlib header: deflate with a window of at most 32K, a
\* multiple of 31, no preset dictionary
ZlibHeaderOk(cmf, flg) ==
  /\ cmf % 16 = 8
  /\ cmf \div 16 <= 7
  /\ (cmf * 256 + flg) % 31 = 0
  /\ (flg \div 32) % 2 = 0

InflateErr(kind) == [ok |-> FALSE, err |-> kind, data |-> <<>>]

\* read_to_end returns Ok with the bytes inflated: the stream has come to its
\* end, or the input has ended before it (the decoder then reads Ok(0))
InflateOk(out) == [ok |-> TRUE, err |-> "", data |-> out]

\* what a part of the stream leaves: st is "ok" with the bit position p behind
\* it, "short" when the input ended within it, "bad" when it is no deflate data
Part(st, p, out) == [st |-> st, p |-> p, out |-> out]

\* bit p of the stream s, the bits counted from 0 and from the least
\* significant bit of each byte
BitAt(s, p) == (s[(p \div 8) + 1] \div Pow2[p % 8]) % 2

\* the stream has n more bits from bit p on
HasBits(s, p, n) == p + n <= 8 * Len(s)

RECURSIVE BitsAt(_, _, _)
\* the number in the n bits from bit p on, least significant bit first
BitsAt(s, p, n) == IF n = 0 THEN 0 ELSE BitAt(s, p) + 2 * BitsAt(s, p + 1, n - 1)

\* the index of the first byte after bit p, less one
ByteAfter(p) == (p + 7) \div 8

\* a Huffman code is the sequence of the code lengths of its symbols, symbol k
\* at index k + 1; the number of its codes of length len
CodeCount(lens, len) == Cardinality({k \in 1..Len(lens) : lens[k] = len})

RECURSIVE CodeSpace(_, _)
\* the part of the codes of 15 bits that the codes of length 1..len take
CodeSpace(lens, len) ==
  IF len = 0 THEN 0
  ELSE CodeSpace(lens, len - 1) + CodeCount(lens, len) * 2^(15 - len)

\* the symbols of a code that have a code word, each as its index in lens
UsedSymbols(lens) == {k \in 1..Len(lens) : lens[k] # 0}

\* the table of a literal/length or distance code is built: the code is
\* complete, or has one symbol at most
CodeOk(lens) ==
  \/ CodeSpace(lens, 15) = 2^15
  \/ Cardinality(UsedSymbols(lens)) <= 1

\* the table of the code-length code of a dynamic block is built: the code is
\* complete
ClCodeOk(lens) == CodeSpace(lens, 15) = 2^15

\* the symbol that is number k, from 0, among those of length len
SymbolOf(lens, len, k) ==
  (CHOOSE j \in 1..Len(lens) :
     lens[j] = len /\ Cardinality({i \in 1..(j - 1) : lens[i] = len}) = k) - 1

RECURSIVE DecodeComplete(_, _, _, _, _, _)
\* the symbol of a complete code whose code word starts at bit p, read a bit at
\* a time: code is the bits read so far, shifted, and first the first code of
\* length len
DecodeComplete(s, p, lens, len, code, first) ==
  IF len > 15 THEN [st |-> "bad", p |-> p, sym |-> 0]
  ELSE IF ~HasBits(s, p, 1) THEN [st |-> "short", p |-> p, sym |-> 0]
  ELSE IF code + BitAt(s, p) - CodeCount(lens, len) < first
    THEN [st |-> "ok", p |-> p + 1,
          sym |-> SymbolOf(lens, len, code + BitAt(s, p) - first)]
  ELSE DecodeComplete(s, p + 1, lens, len + 1, 2 * (code + BitAt(s, p)),
                      2 * (first + CodeCount(lens, len)))

\* the length of the code word of a code that has one, 0 when it has none
LoneLength(lens) ==
  IF UsedSymbols(lens) = {} THEN 0 ELSE lens[CHOOSE k \in UsedSymbols(lens) : TRUE]

RECURSIVE DecodeIncomplete(_, _, _, _, _)
\* the symbol read at bit p under a code that has the one code word of len zero
\* bits, or none (len = 0), i zero bits of it being read. A 1 among the first
\* 10 bits, which index the lookup table, finds the entry of no code word:
\* symbol 286 with length 1, which is no literal, no length and no distance. A
\* 1 after them ends the walk of the tree on an empty node, which reads as
\* symbol 0. A code word the input does not hold in full is waited for
DecodeIncomplete(s, p, lens, len, i) ==
  IF len > 0 /\ i = len
    THEN [st |-> "ok", p |-> p + len, sym |-> SymbolOf(lens, len, 0)]
  ELSE IF ~HasBits(s, p + i, 1) THEN [st |-> "short", p |-> p, sym |-> 0]
  ELSE IF len > 0 /\ BitAt(s, p + i) = 0 THEN DecodeIncomplete(s, p, lens, len, i + 1)
  ELSE IF i < 10 THEN [st |-> "ok", p |-> p + 1, sym |-> 286]
  ELSE [st |-> "ok", p |-> p + i + 1, sym |-> 0]

\* the symbol whose code word starts at bit p, under the code lens whose table
\* was built
DecodeSymbol(s, p, lens) ==
  IF Cardinality(UsedSymbols(lens)) > 1 THEN DecodeComplete(s, p, lens, 1, 0, 0)
  ELSE DecodeIncomplete(s, p, lens, LoneLength(lens), 0)

\* the base and the extra bits of the length symbols 257..285
LengthBase ==
  <<3, 4, 5, 6, 7, 8, 9, 10, 11, 13, 15, 17, 19, 23, 27, 31, 35, 43, 51, 59, 67,
    83, 99, 115, 131, 163, 195, 227, 258>>

LengthExtra ==
  <<0, 0, 0, 0, 0, 0, 0, 0, 1, 1, 1, 1, 2, 2, 2, 2, 3, 3, 3, 3, 4, 4, 4, 4, 5, 5,
    5, 5, 0>>

\* the base and the extra bits of the distance symbols 0..29
DistBase ==
  <<1, 2, 3, 4, 5, 7, 9, 13, 17, 25, 33, 49, 65, 97, 129, 193, 257, 385, 513,
    769, 1025, 1537, 2049, 3073, 4097, 6145, 8193, 12289, 16385, 24577>>

DistExtra ==
  <<0, 0, 0, 0, 1, 1, 2, 2, 3, 3, 4, 4, 5, 5, 6, 6, 7, 7, 8, 8, 9, 9, 10, 10, 11,
    11, 12, 12, 13, 13>>

RECURSIVE CopyMatch(_, _, _)
\* n bytes copied from dist bytes back; the window before the first byte of the
\* output holds zeros
CopyMatch(out, dist, n) ==
  IF n = 0 THEN out
  ELSE CopyMatch(Append(out, IF dist > Len(out) THEN 0 ELSE out[Len(out) - dist + 1]),
                 dist, n - 1)

RECURSIVE InflateCodes(_, _, _, _, _)
\* the match of length symbol sym whose extra bits start at bit p, and the
\* symbols after it
InflateMatch(s, p, out, lit, dist, sym) ==
  IF ~HasBits(s, p, LengthExtra[sym - 256]) THEN Part("short", p, out)
  ELSE LET q == p + LengthExtra[sym - 256]
           d == DecodeSymbol(s, q, dist)
       IN  IF d.st # "ok" THEN Part(d.st, p, out)
           ELSE IF d.sym > 29 THEN Part("bad", p, out)
           ELSE IF ~HasBits(s, d.p, DistExtra[d.sym + 1]) THEN Part("short", p, out)
           ELSE InflateCodes(
                  s, d.p + DistExtra[d.sym + 1],
                  CopyMatch(out,
                            DistBase[d.sym + 1] + BitsAt(s, d.p, DistExtra[d.sym + 1]),
                            LengthBase[sym - 256] + BitsAt(s, p, LengthExtra[sym - 256])),
                  lit, dist)

\* the symbols of a compressed block from bit p on, up to its end-of-block
\* symbol, under the codes lit and dist
InflateCodes(s, p, out, lit, dist) ==
  LET l == DecodeSymbol(s, p, lit)
  IN  IF l.st # "ok" THEN Part(l.st, p, out)
      ELSE IF l.sym < 256 THEN InflateCodes(s, l.p, Append(out, l.sym), lit, dist)
      ELSE IF l.sym = 256 THEN Part("ok", l.p, out)
      ELSE IF l.sym > 285 THEN Part("bad", p, out)
      ELSE InflateMatch(s, l.p, out, lit, dist, l.sym)

\* the codes of a block with fixed codes
FixedLitLens ==
  [k \in 1..288 |-> IF k <= 144 THEN 8 ELSE IF k <= 256 THEN 9 ELSE IF k <= 280 THEN 7 ELSE 8]

FixedDistLens == [k \in 1..32 |-> 5]

\* the order in which a dynamic block gives the lengths of its code-length code
ClOrder == <<16, 17, 18, 0, 8, 7, 9, 6, 10, 5, 11, 4, 12, 3, 13, 2, 14, 1, 15>>

\* the code-length code of a dynamic block whose hclen lengths start at bit p
ClLens(s, p, hclen) ==
  [k \in 1..19 |->
     LET j == CHOOSE i \in 1..19 : ClOrder[i] = k - 1
     IN  IF j <= hclen THEN BitsAt(s, p + 3 * (j - 1), 3) ELSE 0]

RECURSIVE ReadLengths(_, _, _, _, _)
\* the code lengths of a dynamic block from bit p on, lens being those read so
\* far of total: the symbols 16, 17 and 18 repeat the last length or a zero
ReadLengths(s, p, cl, lens, total) ==
  IF Len(lens) = total THEN Part("ok", p, lens)
  ELSE IF Len(lens) > total THEN Part("bad", p, lens)
  ELSE LET c == DecodeSymbol(s, p, cl)
       IN  IF c.st # "ok" THEN Part(c.st, p, lens)
           ELSE IF c.sym < 16 THEN ReadLengths(s, c.p, cl, Append(lens, c.sym), total)
           ELSE IF c.sym = 16 /\ Len(lens) = 0 THEN Part("bad", p, lens)
           ELSE LET extra == <<2, 3, 7>>[c.sym - 15]
                    least == <<3, 3, 11>>[c.sym - 15]
                    what  == IF c.sym = 16 THEN lens[Len(lens)] ELSE 0
                IN  IF ~HasBits(s, c.p, extra) THEN Part("short", p, lens)
                    ELSE ReadLengths(
                           s, c.p + extra, cl,
                           lens \o [k \in 1..(least + BitsAt(s, c.p, extra)) |-> what],
                           total)

\* a block with dynamic codes whose header starts at bit p: the three counts
\* (286 literal/length codes and 30 distance codes at most), the code-length
\* code, the lengths of the two codes, the symbols
InflateDynamic(s, p, out) ==
  IF ~HasBits(s, p, 14) THEN Part("short", p, out)
  ELSE LET hlit  == BitsAt(s, p, 5) + 257
           hdist == BitsAt(s, p + 5, 5) + 1
           hclen == BitsAt(s, p + 10, 4) + 4
       IN  IF hlit > 286 \/ hdist > 30 THEN Part("bad", p, out)
           ELSE IF ~HasBits(s, p + 14, 3 * hclen) THEN Part("short", p, out)
           ELSE IF ~ClCodeOk(ClLens(s, p + 14, hclen)) THEN Part("bad", p, out)
           ELSE LET r == ReadLengths(s, p + 14 + 3 * hclen, ClLens(s, p + 14, hclen),
                                     <<>>, hlit + hdist)
                IN  IF r.st # "ok" THEN Part(r.st, p, out)
                    ELSE IF ~CodeOk(SubSeq(r.out, 1, hlit)) THEN Part("bad", p, out)
                    ELSE IF ~CodeOk(SubSeq(r.out, hlit + 1, hlit + hdist))
                      THEN Part("bad", p, out)
                    ELSE InflateCodes(s, r.p, out, SubSeq(r.out, 1, hlit),
                                      SubSeq(r.out, hlit + 1, hlit + hdist))

\* a stored block whose header ends at bit p: LEN and NLEN from the next byte
\* boundary on, then LEN bytes, as many of them as the input has
InflateStored(s, p, out) ==
  LET q == ByteAfter(p)
  IN  IF q + 4 > Len(s) THEN Part("short", p, out)
      ELSE LET len  == s[q + 1] + 256 * s[q + 2]
               nlen == s[q + 3] + 256 * s[q + 4]
           IN  IF len + nlen # 65535 THEN Part("bad", p, out)
               ELSE IF q + 4 + len > Len(s)
                 THEN Part("short", p, out \o SubSeq(s, q + 5, Len(s)))
               ELSE Part("ok", 8 * (q + 4 + len), out \o SubSeq(s, q + 5, q + 4 + len))

\* the block whose three header bits start at bit p
InflateBlock(s, p, out) ==
  CASE BitsAt(s, p + 1, 2) = 0 -> InflateStored(s, p + 3, out)
    [] BitsAt(s, p + 1, 2) = 1 -> InflateCodes(s, p + 3, out, FixedLitLens, FixedDistLens)
    [] BitsAt(s, p + 1, 2) = 2 -> InflateDynamic(s, p + 3, out)
    [] OTHER -> Part("bad", p, out)

\* the Adler-32 trailer, from the first byte boundary after bit p on
InflateTrailer(s, p, out) ==
  IF ByteAfter(p) + 4 > Len(s) THEN InflateOk(out)
  ELSE IF SubSeq(s, ByteAfter(p) + 1, ByteAfter(p) + 4) # AdlerBytes(out)
    THEN InflateErr("corrupt deflate stream")
  ELSE InflateOk(out)

RECURSIVE InflateBlocks(_, _, _)
\* the deflate blocks of s from bit p on, out being the output so far; the
\* bytes after the stream's end are never read
InflateBlocks(s, p, out) ==
  IF ~HasBits(s, p, 3) THEN InflateOk(out)
  ELSE LET r == InflateBlock(s, p, out)
       IN  IF r.st = "bad" THEN InflateErr("corrupt deflate stream")
           ELSE IF r.st = "short" THEN InflateOk(r.out)
           ELSE IF BitAt(s, p) = 0 THEN InflateBlocks(s, r.p, r.out)
           ELSE InflateTrailer(s, r.p, r.out)

\* ZlibDecoder::new(data).read_to_end(&mut buffer)
Inflate(s) ==
  IF Len(s) < 2 THEN InflateOk(<<>>)
  ELSE IF ~ZlibHeaderOk(s[1], s[2]) THEN InflateErr("corrupt deflate stream")
  ELSE InflateBlocks(s, 16, <<>>)

(***************************************************************************)
(* Container decoder                                                       *)
(***************************************************************************)
\* the u32 that holds the usize n, as its two halves of 16 bits
WordOf(n) == <<n \div 65536, n % 65536>>

\* a u32 converted to usize is at most n
AtMost(w, n) ==
  \/ w[1] < WordOf(n)[1]
  \/ w[1] = WordOf(n)[1] /\ w[2] <= WordOf(n)[2]

\* the usize of a u32 that is known to be the length of a buffer at most
UsizeOf(w) == w[1] * 65536 + w[2]

\* decompress once read_to_end has returned r: `?` passes its error on, and s is
\* the number of bytes read
CheckSize(capacity, r) ==
  IF ~r.ok THEN r
  ELSE IF WordOf(Len(r.data)) # capacity THEN InflateErr("Decompressed size mismatch")
  ELSE r

\* a decompress that does not compare the size
DecompressUnchecked(capacity, data) == Inflate(data)

\* decompress(capacity, data): the data, or the error
Decompress(capacity, data) == CheckSize(capacity, Inflate(data))

Trial(key, outcome, err, buf, content, description, steps) ==
  [key |-> key, outcome |-> outcome, err |-> err, buf |-> buf,
   content |-> content, description |-> description, steps |-> steps]

MagicSteps == <<"magic">>

ContentSteps == <<"magic", "pointer_offset", "content_len", "decompress_content">>

PointerSteps == ContentSteps \o <<"pointer">>

LengthSteps == PointerSteps \o <<"description_len">>

DescriptionSteps == LengthSteps \o <<"decompress_description">>

\* a panic of try_process: an index or a slice range outside the buffer
Panicked(key, decrypted, what, steps) ==
  Trial(key, "Panic", what, decrypted, <<>>, <<>>, steps)

\* an Err of try_process
Failed(key, decrypted, err, steps) ==
  Trial(key, "Err", err, decrypted, <<>>, <<>>, steps)

\* an end of try_process that returns the pair the other way round
FinishTrialSwapped(key, decrypted, c, d) ==
  IF ~d.ok THEN Failed(key, decrypted, d.err, DescriptionSteps)
  ELSE Trial(key, "Ok", "", decrypted, d.data, c.data, DescriptionSteps)

\* the end of try_process, d being what decompress made of the description stream
FinishTrial(key, decrypted, c, d) ==
  IF ~d.ok THEN Failed(key, decrypted, d.err, DescriptionSteps)
  ELSE Trial(key, "Ok", "", decrypted, c.data, d.data, DescriptionSteps)

\* try_process from the `?` on the content's decompress on, c being what
\* decompress made of the content stream: the pointer slot at the backward
\* distance, the description length at the pointer, the description stream
ReadDescription(key, decrypted, c) ==
  LET L == Len(decrypted)
      pointer_offset_maybe == FromLeBytes(decrypted, L - 3)
  IN
  IF ~c.ok THEN Failed(key, decrypted, c.err, ContentSteps)
  ELSE IF ~AtMost(pointer_offset_maybe, L - 4)
    THEN Panicked(key, decrypted, "slice index out of range", PointerSteps)
  ELSE
  LET pointer_maybe == FromLeBytes(decrypted, L - UsizeOf(pointer_offset_maybe) - 3)
  IN
  IF ~AtMost(pointer_maybe, L - 4)
    THEN Panicked(key, decrypted, "slice index out of range", LengthSteps)
  ELSE IF ~AtMost(pointer_maybe, L - 8)
    THEN Panicked(key, decrypted, "slice index out of range", DescriptionSteps)
  ELSE FinishTrial(key, decrypted, c,
                   Decompress(FromLeBytes(decrypted, UsizeOf(pointer_maybe) + 1),
                              SubSeq(decrypted, UsizeOf(pointer_maybe) + 5, L - 4)))

\* a try_process without the check of the byte at offset 4
SkipMagic(key, decrypted) ==
  IF Len(decrypted) < 5
    THEN Panicked(key, decrypted, "index out of bounds", MagicSteps)
  ELSE ReadDescription(key, decrypted,
                       Decompress(FromLeBytes(decrypted, 1),
                                  SubSeq(decrypted, 5, Len(decrypted))))

\* try_process once the buffer is decrypted: the magic byte at offset 4, then the
\* content length and the content stream
CheckMagic(key, decrypted) ==
  IF Len(decrypted) < 5
    THEN Panicked(key, decrypted, "index out of bounds", MagicSteps)
  ELSE IF decrypted[5] # 120
    THEN Failed(key, decrypted, "Invalid zlib header", MagicSteps)
  ELSE ReadDescription(key, decrypted,
                       Decompress(FromLeBytes(decrypted, 1),
                                  SubSeq(decrypted, 5, Len(decrypted))))

\* try_process(data, None): the buffer is the data itself
TryProcessPlain(data) == CheckMagic("none", data)

\* a chain that names the two keys the other way round
CandidateKeyBFirst(k) == <<"none", "CAE", "FZ">>[k]

\* the candidates of the or_else chain, in the order it names them
Candidate(k) == <<"none", "FZ", "CAE">>[k]

NCandidates == 3

\* Result::or_else: the next closure runs when the value so far is an Err
OrElseRuns(t) == t.outcome = "Err"

Running == [status |-> "running", err |-> "", content |-> <<>>, description |-> <<>>]

\* what from_filename returns once the chain has produced t as its value: Ok(Self)
\* of an Ok, the Err that `?` propagates, or the panic that unwinds through it
Returned(t) ==
  [status |-> t.outcome, err |-> t.err, content |-> t.content,
   description |-> t.description]

\* a chain that, all candidates having failed, returns the error of the first
ConcludeFirstError(k, t) ==
  /\ trials' = Append(trials, t)
  /\ dresult' = IF OrElseRuns(t) /\ k < NCandidates THEN dresult
                ELSE IF OrElseRuns(t) THEN Returned(trials[1])
                ELSE Returned(t)

\* the k-th try_process call has produced t: the chain goes on to the next
\* candidate, or from_filename returns
Conclude(k, t) ==
  /\ trials' = Append(trials, t)
  /\ dresult' = IF OrElseRuns(t) /\ k < NCandidates THEN dresult ELSE Returned(t)

\* try_process(&buffer, None), the head of the chain
TryPlain ==
  /\ dresult.status = "running"
  /\ cphase = "idle"
  /\ Len(trials) = 0
  /\ Conclude(1, TryProcessPlain(raw))
  /\ UNCHANGED <<made, raw, cvars>>

\* the k-th closure of the chain runs: try_process(&buffer, Some(key)) calls
\* decrypt, which copies the data and zeroes its register
BeginKeyTrial(k) ==
  /\ dresult.status = "running"
  /\ cphase = "idle"
  /\ Len(trials) = k - 1
  /\ OrElseRuns(trials[k - 1])
  /\ cphase' = "decrypt"
  /\ ckey' = KeyOf(Candidate(k))
  /\ cenc' = raw
  /\ cdec' = <<>>
  /\ cpos' = 0
  /\ creg' = ZeroRegister
  /\ cks' = NoKeystream
  /\ UNCHANGED <<cdata, made, raw, trials, dresult>>

BeginKeyA == BeginKeyTrial(2)

BeginKeyB == BeginKeyTrial(3)

\* decrypt has returned in the k-th call: the rest of try_process
EndKeyTrial(k) ==
  /\ dresult.status = "running"
  /\ cphase = "decrypt"
  /\ cpos = Len(cenc)
  /\ Len(trials) = k - 1
  /\ Conclude(k, CheckMagic(Candidate(k), cdec))
  /\ cphase' = "idle"
  /\ UNCHANGED <<cdata, ckey, cpos, creg, cenc, cdec, cks, made, raw>>

TryKeyA == EndKeyTrial(2)

TryKeyB == EndKeyTrial(3)

(***************************************************************************)
(* The files to decode                                                     *)
(***************************************************************************)
MaxBlob == 1

ContentBytes == {65}

DescriptionBytes == {90}

Pads == {0, 3}

Packs == {"stored", "fixed"}

Blobs(bytes) == UNION {[1..n -> bytes] : n \in 0..MaxBlob}

\* buf with the four bytes from 1-based index i on replaced by the u32 w
PutWord(buf, i, w) == SubSeq(buf, 1, i - 1) \o ToLeBytes(w) \o SubSeq(buf, i + 4, Len(buf))

\* the container layout: content length, content stream, description length,
\* description stream, the absolute pointer to the description length, pad
\* bytes, and the backward distance from the end to the pointer
Build(c, d, pad, pack) ==
  ToLeBytes(WordOf(Len(c))) \o ZlibOf(c, pack)
  \o ToLeBytes(WordOf(Len(d))) \o ZlibOf(d, pack)
  \o ToLeBytes(WordOf(4 + Len(ZlibOf(c, pack))))
  \o SubSeq(ZeroRegister, 1, pad)
  \o ToLeBytes(WordOf(4 + pad))

Tampers ==
  {"none", "content_len", "description_len", "magic", "offset", "offset_max",
   "pointer", "pointer_last", "pointer_end", "short", "cut", "empty"}

\* a container with one field of its framing changed
Tamper(p, how) ==
  LET L    == Len(p)
      slot == L - UsizeOf(FromLeBytes(p, L - 3)) - 3
      ptr  == UsizeOf(FromLeBytes(p, slot))
  IN  CASE how = "none" -> p
        [] how = "content_len" -> PutWord(p, 1, WrappingAdd(FromLeBytes(p, 1), WordOf(1)))
        [] how = "description_len" ->
             PutWord(p, ptr + 1, WrappingAdd(FromLeBytes(p, ptr + 1), WordOf(1)))
        [] how = "magic" -> [p EXCEPT ![5] = 121]
        [] how = "offset" -> PutWord(p, L - 3, WordOf(L - 3))
        [] how = "offset_max" -> PutWord(p, L - 3, <<65535, 65535>>)
        [] how = "pointer" -> PutWord(p, slot, WordOf(L - 7))
        [] how = "pointer_last" -> PutWord(p, slot, WordOf(L - 8))
        [] how = "pointer_end" -> PutWord(p, slot, WordOf(L - 3))
        [] how = "short" -> SubSeq(p, 1, 4)
        [] how = "cut" -> SubSeq(p, 1, 5)
        [] how = "empty" -> <<>>

\* what is written to the file: the blobs, the pad, the changed field and the key
Scenarios ==
  [c : Blobs(ContentBytes), d : Blobs(DescriptionBytes), pad : Pads,
   how : Tampers, enc : {"none"}, pack : Packs]
  \cup
  [c : Blobs(ContentBytes), d : Blobs(DescriptionBytes), pad : {0},
   how : Tampers, enc : {"FZ", "CAE"}, pack : Packs]

NoScenario ==
  [c |-> <<>>, d |-> <<>>, pad |-> 0, how |-> "none", enc |-> "none", pack |-> "stored"]

\* the container of scenario m before encryption
PlainOf(m) == Tamper(Build(m.c, m.d, m.pad, m.pack), m.how)

\* The file is written, encrypted or in the clear, and from_filename opens and
\* reads it.  File::open or read_to_end may fail: `?` then returns the error of
\* the file system before any candidate is tried, which is the status IoErr.
WriteFile ==
  /\ dresult.status = "unwritten"
  /\ made.enc # "none" => cphase = "encrypt" /\ cpos = Len(cdata)
  /\ \E io \in {"read", "File::open", "read_to_end"} :
       IF io = "read"
       THEN /\ raw' = IF made.enc = "none" THEN cdata ELSE cenc
            /\ dresult' = Running
       ELSE /\ raw' = <<>>
            /\ dresult' = [Running EXCEPT !.status = "IoErr", !.err = io]
  /\ cphase' = "idle"
  /\ UNCHANGED <<cdata, ckey, cpos, creg, cenc, cdec, cks, made, trials>>

(***************************************************************************)
(* Record parser (Content::from_bytes).  A record is the sequence of the    *)
(* fields of one row as the csv reader yields them, and a field is the      *)
(* sequence of its characters.                                             *)
(***************************************************************************)
Str_A == <<"A">>

Str_S == <<"S">>

Str_UNIT == <<"U", "N", "I", "T">>

Str_mils == <<"m", "i", "l", "s">>

Str_REFDES == <<"R", "E", "F", "D", "E", "S">>

Str_NET_NAME == <<"N", "E", "T", "_", "N", "A", "M", "E">>

Str_VIAID == <<"V", "I", "A", "I", "D">>

Str_TESTVIA == <<"T", "E", "S", "T", "V", "I", "A">>

Str_GRAPHIC_DATA_NAME == <<"G", "R", "A", "P", "H", "I", "C", "_", "D", "A", "T", "A", "_", "N", "A", "M", "E">>

Str_CLASS == <<"C", "L", "A", "S", "S">>

Str_LOGOInfo == <<"L", "O", "G", "O", "I", "n", "f", "o">>

Str_UnDrawSym == <<"U", "n", "D", "r", "a", "w", "S", "y", "m">>

Str_YES == <<"Y", "E", "S">>

DigitChars == <<"0", "1", "2", "3", "4", "5", "6", "7", "8", "9">>

IsDigit(ch) == \E i \in 1..10 : DigitChars[i] = ch

DigitValue(ch) == (CHOOSE i \in 1..10 : DigitChars[i] = ch) - 1

RECURSIVE DigitsValue(_, _)
\* the number the first n characters of a digit string denote
DigitsValue(chars, n) ==
  IF n = 0 THEN 0 ELSE 10 * DigitsValue(chars, n - 1) + DigitValue(chars[n])

\* the Err of a conversion, err being its message
NoNumber(err) == [ok |-> FALSE, value |-> 0, err |-> err]

NotANumber == NoNumber("invalid number")

\* An unsigned integer of 64 bits is the sequence of its decimal digits, most
\* significant first, without leading zeros: 10 is <<1, 0>> and 0 is <<0>>.
\* u64::MAX = 18446744073709551615
U64_MAX == <<1, 8, 4, 4, 6, 7, 4, 4, 0, 7, 3, 7, 0, 9, 5, 5, 1, 6, 1, 5>>

U16_MAX == 65535

RECURSIVE DigitsOf(_)
\* the digits of the number n
DigitsOf(n) == IF n < 10 THEN <<n>> ELSE Append(DigitsOf(n \div 10), n % 10)

\* result * 10 + d on the digits of result
MulAdd(value, d) == IF value = <<0>> THEN <<d>> ELSE Append(value, d)

\* a <= b on the digits of a and b
DigitsAtMost(a, b) ==
  \/ Len(a) < Len(b)
  \/ /\ Len(a) = Len(b)
     /\ \/ a = b
        \/ \E i \in 1..Len(a) : a[i] < b[i] /\ SubSeq(a, 1, i - 1) = SubSeq(b, 1, i - 1)

RECURSIVE ParseDigits(_, _, _, _)
\* the loop of from_str_radix over the characters from index i on, value being
\* the result so far: a character that is no digit is the error InvalidDigit,
\* and a result beyond max (checked_mul, checked_add) the error PosOverflow
ParseDigits(chars, i, value, max) ==
  IF i > Len(chars) THEN [ok |-> TRUE, value |-> value, err |-> ""]
  ELSE IF ~IsDigit(chars[i]) THEN NoNumber("invalid digit found in string")
  ELSE IF ~DigitsAtMost(MulAdd(value, DigitValue(chars[i])), max)
    THEN NoNumber("number too large to fit in target type")
  ELSE ParseDigits(chars, i + 1, MulAdd(value, DigitValue(chars[i])), max)

\* str::parse of an unsigned integer type whose maximum has the digits max: the
\* empty string is the error Empty, a lone sign the error InvalidDigit; a
\* leading + is dropped (a leading - is no digit); then one digit or more
ParseUnsigned(chars, max) ==
  IF Len(chars) = 0 THEN NoNumber("cannot parse integer from empty string")
  ELSE IF chars = <<"+">> \/ chars = <<"-">> THEN NoNumber("invalid digit found in string")
  ELSE IF chars[1] = "+" THEN ParseDigits(chars, 2, <<0>>, max)
  ELSE ParseDigits(chars, 1, <<0>>, max)

\* String::from_utf8_lossy(field).to_string().parse::<u64>()
ParseU64(chars) == ParseUnsigned(chars, U64_MAX)

\* String::from_utf8_lossy(field).to_string().parse::<u16>(): a u16 is a
\* number, the one its digits denote
ParseU16(chars) ==
  IF ~ParseUnsigned(chars, DigitsOf(U16_MAX)).ok THEN ParseUnsigned(chars, DigitsOf(U16_MAX))
  ELSE [ok |-> TRUE, err |-> "",
        value |-> IF chars[1] = "+" THEN DigitsValue(Tail(chars), Len(chars) - 1)
                  ELSE DigitsValue(chars, Len(chars))]

\* .replace(',', ".")
ReplaceComma(chars) == [i \in 1..Len(chars) |-> IF chars[i] = "," THEN "." ELSE chars[i]]

\* the positions of the decimal points of chars
Points(chars) == {i \in 1..Len(chars) : chars[i] = "."}

\* Decimal::from_str of an unsigned decimal string: digits with at most one
\* point among them; the value is mantissa / 10^scale
DecimalOf(neg, body) ==
  LET digits == SelectSeq(body, IsDigit)
  IN  IF Len(digits) = 0 \/ Cardinality(Points(body)) > 1
         \/ \E i \in 1..Len(body) : ~IsDigit(body[i]) /\ body[i] # "."
      THEN NotANumber
      ELSE [ok |-> TRUE,
            value |-> [neg |-> neg /\ DigitsValue(digits, Len(digits)) # 0,
                       mantissa |-> DigitsValue(digits, Len(digits)),
                       scale |-> IF Points(body) = {} THEN 0
                                 ELSE Len(body) - (CHOOSE i \in Points(body) : TRUE)]]

\* parse_decimal(field): the comma becomes a point, then Decimal::from_str with
\* its optional sign
ParseDecimal(chars) ==
  LET s == ReplaceComma(chars)
  IN  IF Len(s) > 0 /\ s[1] \in {"+", "-"} THEN DecimalOf(s[1] = "-", Tail(s))
      ELSE DecimalOf(FALSE, s)

\* how the struct literal of each record kind reads the fields of an S row, in
\* the order it evaluates them: <<index, how it is converted>>
FieldPlan(state) ==
  CASE state = "Symbol" ->
         <<<<1, "str">>, <<2, "u64">>, <<3, "str">>, <<4, "yes">>, <<5, "u16">>>>
    [] state = "Pin" ->
         <<<<1, "str">>, <<2, "str">>, <<3, "str">>, <<4, "str">>, <<5, "dec">>,
           <<6, "dec">>, <<7, "str">>, <<8, "dec">>>>
    [] state = "TestVia" ->
         <<<<1, "str">>, <<2, "str">>, <<3, "str">>, <<4, "str">>, <<5, "str">>,
           <<6, "dec">>, <<7, "dec">>, <<8, "str">>, <<9, "dec">>>>
    [] state = "GraphicData" ->
         <<<<1, "str">>, <<2, "u64">>, <<3, "str">>, <<4, "str">>, <<5, "str">>,
           <<6, "str">>, <<7, "str">>, <<8, "str">>, <<9, "str">>, <<10, "str">>,
           <<11, "str">>, <<12, "str">>, <<13, "str">>, <<14, "str">>, <<15, "str">>>>
    [] state = "ClassedGraphicData" ->
         <<<<1, "str">>, <<2, "str">>, <<3, "str">>, <<4, "u64">>, <<5, "str">>,
           <<6, "str">>, <<7, "str">>, <<8, "str">>, <<9, "str">>, <<10, "str">>,
           <<11, "str">>, <<12, "str">>, <<13, "str">>, <<14, "str">>, <<15, "str">>>>
    [] OTHER -> <<>>

\* a conversion that takes a field that is no number for zero
ConvertLenient(chars, how) ==
  CASE how = "str" -> [ok |-> TRUE, value |-> chars]
    [] how = "yes" -> [ok |-> TRUE, value |-> (chars = Str_YES)]
    [] how = "u64" -> [ok |-> TRUE, value |-> ParseU64(chars).value]
    [] how = "u16" -> [ok |-> TRUE, value |-> ParseU16(chars).value]
    [] how = "dec" -> [ok |-> TRUE, value |-> ParseDecimal(chars).value]

\* the conversion of one field
Convert(chars, how) ==
  CASE how = "str" -> [ok |-> TRUE, value |-> chars]
    [] how = "yes" -> [ok |-> TRUE, value |-> (chars = Str_YES)]
    [] how = "u64" -> ParseU64(chars)
    [] how = "u16" -> ParseU16(chars)
    [] how = "dec" -> ParseDecimal(chars)

RECURSIVE ReadFields(_, _, _, _)
\* the struct literal evaluated from entry k of the plan on, vals being the
\* values so far: record[i] panics when the record has no field i, and `?`
\* returns the error of a conversion that fails
ReadFields(record, plan, k, vals) ==
  IF k > Len(plan) THEN [status |-> "Ok", err |-> "", vals |-> vals]
  ELSE IF plan[k][1] >= Len(record)
    THEN [status |-> "Panic", err |-> "index out of bounds", vals |-> <<>>]
  ELSE IF ~Convert(record[plan[k][1] + 1], plan[k][2]).ok
    THEN [status |-> "Err", err |-> Convert(record[plan[k][1] + 1], plan[k][2]).err,
          vals |-> <<>>]
  ELSE ReadFields(record, plan, k + 1,
                  Append(vals, Convert(record[plan[k][1] + 1], plan[k][2]).value))

\* the records of each kind, from the values in the order of the plan
MakeSymbol(v) ==
  [refdes |-> v[1], comp_insertion_code |-> v[2], sym_name |-> v[3],
   sym_mirror |-> v[4], sym_rotate |-> v[5]]

\* a Pin with the two coordinates taken from each other's field
MakePinTransposed(v) ==
  [net_name |-> v[1], refdes |-> v[2], pin_number |-> v[3], pin_name |-> v[4],
   pin_x |-> v[6], pin_y |-> v[5], test_point |-> v[7], radius |-> v[8]]

MakePin(v) ==
  [net_name |-> v[1], refdes |-> v[2], pin_number |-> v[3], pin_name |-> v[4],
   pin_x |-> v[5], pin_y |-> v[6], test_point |-> v[7], radius |-> v[8]]

MakeTestVia(v) ==
  [testvia |-> v[1], net_name |-> v[2], refdes |-> v[3], pin_number |-> v[4],
   pin_name |-> v[5], via_x |-> v[6], via_y |-> v[7], test_point |-> v[8],
   radius |-> v[9]]

MakeGraphicData(v) ==
  [graphic_data_name |-> v[1], graphic_data_number |-> v[2], record_tag |-> v[3],
   graphic_data |-> SubSeq(v, 4, 12), subclass |-> v[13], sym_name |-> v[14],
   refdes |-> v[15]]

MakeClassedGraphicData(v) ==
  [class |-> v[1], subclass |-> v[2], graphic_data_name |-> v[3],
   graphic_data_number |-> v[4], record_tag |-> v[5],
   graphic_data |-> SubSeq(v, 6, 14), net_name |-> v[15]]

\* a table with the two via sections exchanged
SectionOfViasExchanged(name, state) ==
  IF name = Str_REFDES THEN "Symbol"
  ELSE IF name = Str_NET_NAME THEN "Pin"
  ELSE IF name = Str_VIAID THEN "TestVia"
  ELSE IF name = Str_TESTVIA THEN "Via"
  ELSE IF name = Str_GRAPHIC_DATA_NAME THEN "GraphicData"
  ELSE IF name = Str_CLASS THEN "ClassedGraphicData"
  ELSE IF name = Str_LOGOInfo THEN state
  ELSE IF name = Str_UnDrawSym THEN state
  ELSE "Unknown"

\* a table without the two empty branches: their names fall to the else branch
SectionOfNoSubAnnotation(name, state) ==
  IF name = Str_REFDES THEN "Symbol"
  ELSE IF name = Str_NET_NAME THEN "Pin"
  ELSE IF name = Str_VIAID THEN "Via"
  ELSE IF name = Str_TESTVIA THEN "TestVia"
  ELSE IF name = Str_GRAPHIC_DATA_NAME THEN "GraphicData"
  ELSE IF name = Str_CLASS THEN "ClassedGraphicData"
  ELSE "Unknown"

\* the state an A row named name sets, state being the state before it
SectionOf(name, state) ==
  IF name = Str_REFDES THEN "Symbol"
  ELSE IF name = Str_NET_NAME THEN "Pin"
  ELSE IF name = Str_VIAID THEN "Via"
  ELSE IF name = Str_TESTVIA THEN "TestVia"
  ELSE IF name = Str_GRAPHIC_DATA_NAME THEN "GraphicData"
  ELSE IF name = Str_CLASS THEN "ClassedGraphicData"
  ELSE IF name = Str_LOGOInfo THEN state
  ELSE IF name = Str_UnDrawSym THEN state
  ELSE "Unknown"

\* a comparison of field 2 that takes the upper-case spelling for mils too
UnitsOfAnyCase(field) ==
  IF field \in {Str_mils, <<"M", "I", "L", "S">>} THEN "Mils" ELSE "Millimeters"

\* Units of field 2 of an A!UNIT row
UnitsOf(field) == IF field = Str_mils THEN "Mils" ELSE "Millimeters"

Stopped(p, status, err) == [p EXCEPT !.status = status, !.err = err]

\* a branch of an A row that sets the unit on a UNIT row only to leave the default
AnnotationUnitOnce(p, record) ==
  IF Len(record) < 2 THEN Stopped(p, "Panic", "index out of bounds")
  ELSE IF record[2] = Str_UNIT
    THEN IF Len(record) < 3 THEN Stopped(p, "Panic", "index out of bounds")
         ELSE IF p.units = "Mils" THEN [p EXCEPT !.units = UnitsOf(record[3])]
         ELSE p
  ELSE [p EXCEPT !.state = SectionOf(record[2], p.state)]

\* a branch of an A row whose UNIT row falls through to the state as well
AnnotationUnitResets(p, record) ==
  IF Len(record) < 2 THEN Stopped(p, "Panic", "index out of bounds")
  ELSE IF record[2] = Str_UNIT
    THEN IF Len(record) < 3 THEN Stopped(p, "Panic", "index out of bounds")
         ELSE [p EXCEPT !.units = UnitsOf(record[3]),
                        !.state = SectionOf(record[2], p.state)]
  ELSE [p EXCEPT !.state = SectionOf(record[2], p.state)]

\* the branch of an A row
Annotation(p, record) ==
  IF Len(record) < 2 THEN Stopped(p, "Panic", "index out of bounds")
  ELSE IF record[2] = Str_UNIT
    THEN IF Len(record) < 3 THEN Stopped(p, "Panic", "index out of bounds")
         ELSE [p EXCEPT !.units = UnitsOf(record[3])]
  ELSE [p EXCEPT !.state = SectionOf(record[2], p.state)]

\* an insertion of the record made of the values v at the front
PushFront(p, v) ==
  CASE p.state = "Symbol" -> [p EXCEPT !.symbols = <<MakeSymbol(v)>> \o @]
    [] p.state = "Pin" -> [p EXCEPT !.pins = <<MakePin(v)>> \o @]
    [] p.state = "TestVia" -> [p EXCEPT !.testvias = <<MakeTestVia(v)>> \o @]
    [] p.state = "GraphicData" ->
         [p EXCEPT !.graphic_data = <<MakeGraphicData(v)>> \o @]
    [] p.state = "ClassedGraphicData" ->
         [p EXCEPT !.classed_graphic_data = <<MakeClassedGraphicData(v)>> \o @]

\* the push of the record made of the values v
Push(p, v) ==
  CASE p.state = "Symbol" -> [p EXCEPT !.symbols = Append(@, MakeSymbol(v))]
    [] p.state = "Pin" -> [p EXCEPT !.pins = Append(@, MakePin(v))]
    [] p.state = "TestVia" -> [p EXCEPT !.testvias = Append(@, MakeTestVia(v))]
    [] p.state = "GraphicData" ->
         [p EXCEPT !.graphic_data = Append(@, MakeGraphicData(v))]
    [] p.state = "ClassedGraphicData" ->
         [p EXCEPT !.classed_graphic_data = Append(@, MakeClassedGraphicData(v))]

\* the branch of an S row once its fields are read
DataRead(p, f) ==
  IF f.status # "Ok" THEN Stopped(p, f.status, f.err) ELSE Push(p, f.vals)

\* a match on the state that reads the rows of the Via section as test vias
DataViaAsTestVia(p, record) ==
  IF p.state = "Unknown" THEN p
  ELSE IF p.state = "Via"
    THEN DataRead([p EXCEPT !.state = "TestVia"],
                  ReadFields(record, FieldPlan("TestVia"), 1, <<>>))
  ELSE DataRead(p, ReadFields(record, FieldPlan(p.state), 1, <<>>))

\* the branch of an S row: the match on the state
Data(p, record) ==
  IF p.state \in {"Unknown", "Via"} THEN p
  ELSE DataRead(p, ReadFields(record, FieldPlan(p.state), 1, <<>>))

\* a loop body that reads every row that is no A row as an S row
AfterRecordElseData(p, record) ==
  IF Len(record) = 0 THEN p
  ELSE IF record[1] = Str_A THEN Annotation(p, record)
  ELSE Data(p, record)

\* the body of the loop over the records, p being the locals before it
AfterRecord(p, record) ==
  IF Len(record) = 0 THEN p
  ELSE IF record[1] = Str_A THEN Annotation(p, record)
  ELSE IF record[1] = Str_S THEN Data(p, record)
  ELSE p

\* the locals of from_bytes and what it has returned
Locals ==
  [state |-> pstate, units |-> units, symbols |-> symbols, pins |-> pins,
   testvias |-> testvias, graphic_data |-> graphic_data,
   classed_graphic_data |-> classed_graphic_data,
   status |-> presult.status, err |-> presult.err]

SetLocals(p) ==
  /\ pstate' = p.state
  /\ units' = p.units
  /\ symbols' = p.symbols
  /\ pins' = p.pins
  /\ testvias' = p.testvias
  /\ graphic_data' = p.graphic_data
  /\ classed_graphic_data' = p.classed_graphic_data
  /\ presult' = [status |-> p.status, err |-> p.err]

\* the number of records of the longest input
MaxRows == 3

\* one iteration of the loop: the reader yields record
ProcessRecord(record) ==
  /\ presult.status = "running"
  /\ Len(hist) < MaxRows
  /\ \E p \in {AfterRecord(Locals, record)} : SetLocals(p)
  /\ hist' = Append(hist, [row |-> record, before |-> Locals])
  /\ UNCHANGED parsed

\* Self { units, symbols, pins, testvias, graphic_data, classed_graphic_data }
ContentOf(p) ==
  [units |-> p.units, symbols |-> p.symbols, pins |-> p.pins,
   testvias |-> p.testvias, graphic_data |-> p.graphic_data,
   classed_graphic_data |-> p.classed_graphic_data]

\* no Content: from_bytes has not returned, or has returned an Err
NoContent == <<>>

\* the reader has no more records: Ok(Self { .. })
ReturnContent ==
  /\ presult.status = "running"
  /\ presult' = [status |-> "Ok", err |-> ""]
  /\ parsed' = ContentOf(Locals)
  /\ UNCHANGED <<pstate, units, symbols, pins, testvias, graphic_data,
                 classed_graphic_data, hist>>

(***************************************************************************)
(* The rows to parse                                                       *)
(***************************************************************************)
Str_1 == <<"1">>

\* a row of sixteen fields that every record kind can read
FullRow == <<Str_S>> \o [i \in 1..15 |-> Str_1]

\* S!N1!U1!1!A!10!20!!0.5
PinRow ==
  <<Str_S, <<"N", "1">>, <<"U", "1">>, Str_1, Str_A, <<"1", "0">>, <<"2", "0">>,
    <<>>, <<"0", ".", "5">>>>

\* S!N2!U2!0!B!-1,5!2!TP!0,25
CommaRow ==
  <<Str_S, <<"N", "2">>, <<"U", "2">>, <<"0">>, <<"B">>, <<"-", "1", ",", "5">>,
    <<"2">>, <<"T", "P">>, <<"0", ",", "2", "5">>>>

\* S!U1!7!SOT23!YES!90
SymbolRow ==
  <<Str_S, <<"U", "1">>, <<"7">>, <<"S", "O", "T", "2", "3">>, Str_YES, <<"9", "0">>>>

\* the full row with field i replaced by text
FullRowWith(i, text) == [FullRow EXCEPT ![i + 1] = text]

\* u64::MAX as a field writes it, and the number after it
Str_U64_MAX == [i \in 1..20 |-> DigitChars[U64_MAX[i] + 1]]

Str_U64_MAX_plus_1 == [Str_U64_MAX EXCEPT ![20] = "6"]

\* full rows with one field that is no number, in every place that some record
\* kind reads as a number: letters after a digit, a minus sign, the empty field,
\* two points, a lone sign; and full rows with a number too large for its type
BadNumberRows ==
  {FullRowWith(i, <<"1", "x">>) : i \in {2, 5, 8}}
  \cup {FullRowWith(4, <<"-", "1">>), FullRowWith(6, <<>>),
        FullRowWith(7, <<"1", ".", "2", ".", "3">>), FullRowWith(9, <<"+">>)}
  \cup {FullRowWith(5, <<"6", "5", "5", "3", "6">>), FullRowWith(2, Str_U64_MAX_plus_1)}

\* full rows with a signed number: +18446744073709551615 is a u64, and +1,5 is
\* a decimal and no u16
SignedRows == {FullRowWith(2, <<"+">> \o Str_U64_MAX), FullRowWith(5, <<"+", "1", ",", "5">>)}

OddRows == BadNumberRows \cup SignedRows

AnnotationNames ==
  {Str_REFDES, Str_NET_NAME, Str_VIAID, Str_TESTVIA, Str_GRAPHIC_DATA_NAME,
   Str_CLASS, Str_LOGOInfo, Str_UnDrawSym, <<"V", "E", "R">>}

Rows ==
  {<<Str_A, n>> : n \in AnnotationNames}
  \cup {<<Str_A, Str_UNIT, Str_mils>>, <<Str_A, Str_UNIT, <<"m", "m">>>>,
        <<Str_A, Str_UNIT, <<"M", "I", "L", "S">>>>, <<Str_A, Str_UNIT, <<>>>>,
        <<Str_A, Str_UNIT>>, <<Str_A>>}
  \cup {FullRow, PinRow, <<Str_S, <<"N", "1">>>>, <<>>, <<<<"J">>, Str_1>>}
  \cup {CommaRow, SymbolRow} \cup OddRows

(***************************************************************************)
(* Description parser (Description::from_bytes).  The description is the    *)
(* sequence of its characters; it holds no double quote, so that the csv    *)
(* reader meets no quoted field.                                           *)
(***************************************************************************)
CR == "\r"

LF == "\n"

TAB == "\t"

RECURSIVE SplitAt(_, _, _, _)
\* str::split on the pattern pat, from index i on, at being the indices where
\* pat occurs in chars: the piece up to the next occurrence, then the pieces
\* after it
SplitAt(chars, pat, i, at) ==
  IF \A j \in at : j < i THEN <<SubSeq(chars, i, Len(chars))>>
  ELSE LET next == CHOOSE j \in at : j >= i /\ \A m \in at : m >= i => j <= m
       IN  <<SubSeq(chars, i, next - 1)>> \o SplitAt(chars, pat, next + Len(pat), at)

\* description_str.split("\r\n") and lines[0].split('|')
Split(chars, pat) ==
  SplitAt(chars, pat, 1,
          {j \in 1..(Len(chars) - Len(pat) + 1) : SubSeq(chars, j, j + Len(pat) - 1) = pat})

QUOTE == "\""

\* the default terminator of the csv reader: CR, LF or CRLF ends a record
IsTerm(ch) == ch \in {CR, LF}

NoRecord == [some |-> FALSE, record |-> <<>>, next |-> 0]

Yield(record, next) == [some |-> TRUE, record |-> record, next |-> next]

\* the least index from i on of a character of chars that is in set, and
\* Len(chars) + 1 when there is none
NextOf(chars, i, set) ==
  IF \E j \in i..Len(chars) : chars[j] \in set
  THEN CHOOSE j \in i..Len(chars) :
         chars[j] \in set /\ \A m \in i..(j - 1) : chars[m] \notin set
  ELSE Len(chars) + 1

RECURSIVE CsvRead(_, _, _, _, _)
\* the csv reader from index i on in state st, cur being the field begun and
\* fields the fields of the record begun: the next record and the index after
\* it.  A terminator at the start of a record is discarded, so that an empty
\* line is no record; a field that begins with a quote runs to the next quote
\* that is not doubled, across tabs and terminators; the characters of a field
\* up to the next quote (in a quoted field) or to the next tab or terminator (in
\* another) are copied in one step.
CsvRead(chars, i, st, cur, fields) ==
  IF i > Len(chars)
  THEN (IF st = "StartRecord" THEN NoRecord ELSE Yield(Append(fields, cur), i))
  ELSE IF st = "StartRecord"
    THEN (IF IsTerm(chars[i]) THEN CsvRead(chars, i + 1, "StartRecord", <<>>, <<>>)
          ELSE CsvRead(chars, i, "StartField", <<>>, <<>>))
  ELSE IF st = "InQuotedField"
    THEN (IF NextOf(chars, i, {QUOTE}) > Len(chars)
          THEN CsvRead(chars, Len(chars) + 1, "InQuotedField",
                       cur \o SubSeq(chars, i, Len(chars)), fields)
          ELSE CsvRead(chars, NextOf(chars, i, {QUOTE}) + 1, "InDoubleEscapedQuote",
                       cur \o SubSeq(chars, i, NextOf(chars, i, {QUOTE}) - 1), fields))
  ELSE IF chars[i] = QUOTE /\ st = "StartField"
    THEN CsvRead(chars, i + 1, "InQuotedField", cur, fields)
  ELSE IF chars[i] = QUOTE /\ st = "InDoubleEscapedQuote"
    THEN CsvRead(chars, i + 1, "InQuotedField", Append(cur, QUOTE), fields)
  ELSE IF chars[i] = TAB
    THEN CsvRead(chars, i + 1, "StartField", <<>>, Append(fields, cur))
  ELSE IF IsTerm(chars[i])
    THEN Yield(Append(fields, cur), i + 1)
  ELSE CsvRead(chars, NextOf(chars, i, {TAB, CR, LF}), "InField",
               cur \o SubSeq(chars, i, NextOf(chars, i, {TAB, CR, LF}) - 1), fields)

\* csv::ReaderBuilder with delimiter tab, flexible, no headers: what
\* byte_records yields next when the reader is at index i of the text
NextRecord(chars, i) == CsvRead(chars, i, "StartRecord", <<>>, <<>>)

\* The characters with the Unicode property White_Space, the ones that
\* char::is_whitespace takes: U+0009 to U+000D, U+0020, U+0085, U+00A0,
\* U+1680, U+2000 to U+200A, U+2028, U+2029, U+202F, U+205F and U+3000.  A
\* character that a string cannot hold as it is is written as its code point.
White_Space ==
  {TAB, LF, "U+000B", "\f", CR, " ", "U+0085", "U+00A0", "U+1680", "U+2000",
   "U+2001", "U+2002", "U+2003", "U+2004", "U+2005", "U+2006", "U+2007",
   "U+2008", "U+2009", "U+200A", "U+2028", "U+2029", "U+202F", "U+205F",
   "U+3000"}

IsWhitespace(ch) == ch \in White_Space

RECURSIVE Tokens(_, _, _)
\* str::split_whitespace from index i on, cur being the token begun
Tokens(chars, i, cur) ==
  IF i > Len(chars) THEN (IF cur = <<>> THEN <<>> ELSE <<cur>>)
  ELSE IF IsWhitespace(chars[i])
    THEN (IF cur = <<>> THEN <<>> ELSE <<cur>>) \o Tokens(chars, i + 1, <<>>)
  ELSE Tokens(chars, i + 1, Append(cur, chars[i]))

SplitWhitespace(chars) == Tokens(chars, 1, <<>>)

HEADER_FIELDS == 5

SKIPPED_ROWS == 2

NotDescribed == [status |-> "running", err |-> "", value |-> <<>>]

DescribeFailed(err) == [status |-> "Err", err |-> err, value |-> <<>>]

\* a header with the fields of the other pair exchanged
DescriptionOfRevisionFirst(h, cs) ==
  [board_model |-> h[2], revision |-> h[1], extended_board_model |-> h[4],
   extended_revision |-> h[3], part_number |-> h[5], components |-> cs]

\* Ok(Self { board_model, revision, extended_board_model, extended_revision,
\* part_number, components })
DescriptionOf(h, cs) ==
  [board_model |-> h[1], revision |-> h[2], extended_board_model |-> h[3],
   extended_revision |-> h[4], part_number |-> h[5], components |-> cs]

\* the split into lines and the check of line 0; the reader is made over the
\* whole description
ReadHeader ==
  /\ described.status = "running"
  /\ header = <<>>
  /\ \E h \in {Split(Split(description_str, <<CR, LF>>)[1], <<"|">>)} :
       IF Len(h) < HEADER_FIELDS
       THEN /\ described' = DescribeFailed("Invalid header format")
            /\ UNCHANGED <<header, component_reader>>
       ELSE /\ header' = h
            /\ component_reader' = 1
            /\ UNCHANGED described
  /\ UNCHANGED <<written, description_str, nth, components>>

\* byte_records().skip(2): a record that the loop never sees
SkipRow ==
  /\ described.status = "running"
  /\ header # <<>>
  /\ nth < SKIPPED_ROWS
  /\ \E r \in {NextRecord(description_str, component_reader)} :
       /\ r.some
       /\ component_reader' = r.next
  /\ nth' = nth + 1
  /\ UNCHANGED <<written, description_str, header, components, described>>

\* Component { part_number, description, quantity, location, part_number2 }
MakeComponent(record) ==
  [part_number |-> record[1], description |-> record[2],
   quantity |-> ParseU64(record[3]).value,
   location |-> SplitWhitespace(record[4]), part_number2 |-> record[5]]

\* a loop body that takes rows of four fields too
TableRowOfFour(cs, record) ==
  IF Len(record) < 4 THEN [status |-> "running", err |-> "", components |-> cs]
  ELSE IF ~ParseU64(record[3]).ok
    THEN [status |-> "Err", err |-> ParseU64(record[3]).err, components |-> cs]
  ELSE [status |-> "running", err |-> "",
        components |-> Append(cs, MakeComponent(record \o <<<<>>>>))]

\* the body of the loop over the records, cs being the components before it: a
\* quantity that is no u64 returns the error of its parse
TableRow(cs, record) ==
  IF Len(record) < 5 THEN [status |-> "running", err |-> "", components |-> cs]
  ELSE IF ~ParseU64(record[3]).ok
    THEN [status |-> "Err", err |-> ParseU64(record[3]).err, components |-> cs]
  ELSE [status |-> "running", err |-> "", components |-> Append(cs, MakeComponent(record))]

\* one iteration of the loop: the reader yields its next record
ReadRow ==
  /\ described.status = "running"
  /\ header # <<>>
  /\ nth >= SKIPPED_ROWS
  /\ \E r \in {NextRecord(description_str, component_reader)} :
       /\ r.some
       /\ component_reader' = r.next
       /\ \E t \in {TableRow(components, r.record)} :
            /\ components' = t.components
            /\ described' = IF t.status = "Err" THEN DescribeFailed(t.err) ELSE described
  /\ nth' = nth + 1
  /\ UNCHANGED <<written, description_str, header>>

\* the reader has no more records: Ok(Self { .. })
ReturnDescription ==
  /\ described.status = "running"
  /\ header # <<>>
  /\ ~NextRecord(description_str, component_reader).some
  /\ described' = [status |-> "Ok", err |-> "", value |-> DescriptionOf(header, components)]
  /\ UNCHANGED <<written, description_str, header, component_reader, nth, components>>

(***************************************************************************)
(* The descriptions to parse                                               *)
(***************************************************************************)
\* the number of lines after the header of the longest description
MaxLines == 4

RECURSIVE Join(_, _)
\* the pieces with sep between them
Join(pieces, sep) ==
  IF Len(pieces) = 0 THEN <<>>
  ELSE IF Len(pieces) = 1 THEN pieces[1]
  ELSE pieces[1] \o sep \o Join(Tail(pieces), sep)

Headers ==
  {<<<<>>>>,
   <<<<"M">>, <<"R">>>>,
   <<<<"M">>, <<"R">>, <<"E", "M">>, <<"E", "R">>, <<"P", "N">>>>,
   <<<<"M">>, <<>>, <<"E", "M">>, <<"E", "R">>, <<"P", "N">>, <<"X">>>>}

\* the rows of a table, each the sequence of its fields; the row of one empty
\* field is an empty line
TableRows ==
  {<<<<>>>>,
   <<<<"B", "O", "M">>>>,
   <<<<"p", "1">>, <<"r", QUOTE, "s">>, <<"2">>, <<"R", "1", " ", "R", "2">>, <<"q", "1">>>>,
   <<<<"p", "2">>, <<QUOTE, "c">>, <<"1", "0">>, <<" ", "C", "3", TAB>>, <<>>, <<"x">>>>,
   <<<<"p", "3">>, <<"i", "n", "d">>, <<"1">>, <<"L", "1">>>>,
   <<<<"P", "N">>, <<"D">>, <<"Q", "t", "y">>, <<"L", "o", "c">>, <<"A", "l", "t">>>>,
   <<<<"p", "4">>, <<>>, <<"+">> \o Str_U64_MAX,
     <<"U+00A0", "T", "1", "U+000B", "\f", "T", "2", "U+0085", "T", "3", "U+3000">>,
     <<"q", "4">>>>,
   <<<<"p", "5">>, <<>>, Str_U64_MAX_plus_1, <<"T", "4">>, <<>>>>,
   <<<<"p", "6">>, <<>>, <<>>, <<"T", "5">>, <<>>>>}

Writings ==
  [header : Headers, rows : UNION {[1..n -> TableRows] : n \in 0..MaxLines}]

NothingWritten == [header |-> <<>>, rows |-> <<>>]

RECURSIVE Doubled(_)
\* the field with each of its quotes written twice
Doubled(field) ==
  IF field = <<>> THEN <<>>
  ELSE (IF Head(field) = QUOTE THEN <<QUOTE, QUOTE>> ELSE <<Head(field)>>) \o Doubled(Tail(field))

\* a field as the table holds it: between quotes when it has a tab, a quote or
\* a terminator in it
Quoted(field) ==
  IF \E i \in 1..Len(field) : field[i] \in {TAB, QUOTE, CR, LF}
  THEN <<QUOTE>> \o Doubled(field) \o <<QUOTE>>
  ELSE field

\* the text written from w: the header fields with | between them, then each row
\* with tabs between its fields, the lines separated by CRLF
TextOf(w) ==
  Join(<<Join(w.header, <<"|">>)>>
         \o [k \in 1..Len(w.rows) |->
               Join([f \in 1..Len(w.rows[k]) |-> Quoted(w.rows[k][f])], <<TAB>>)],
       <<CR, LF>>)

(***************************************************************************)
(* rust_decimal::Decimal arithmetic of the interpreter.  A Decimal is a     *)
(* sign, a mantissa below 2^96 and a scale of at most 28; where arithmetic  *)
(* is done on it the mantissa is held as its decimal digits, the most       *)
(* significant first and the empty sequence for zero, since a quotient has  *)
(* up to 29 of them.                                                       *)
(***************************************************************************)
MAX_SCALE == 28

\* 2^96 - 1, the largest mantissa
MAX_MANTISSA ==
  <<7, 9, 2, 2, 8, 1, 6, 2, 5, 1, 4, 2, 6, 4, 3, 3, 7, 5, 9, 3, 5, 4, 3, 9, 5, 0, 3, 3, 5>>

RECURSIVE Strip(_)
\* the digits without their leading zeros
Strip(ds) == IF ds = <<>> THEN <<>> ELSE IF Head(ds) = 0 THEN Strip(Tail(ds)) ELSE ds

RECURSIVE NatDigits(_)
\* the digits of the natural number n
NatDigits(n) == IF n = 0 THEN <<>> ELSE Append(NatDigits(n \div 10), n % 10)

RECURSIVE DigitsNat(_)
\* the natural number of the digits ds, for a number that an integer of the
\* model holds
DigitsNat(ds) == IF ds = <<>> THEN 0 ELSE 10 * DigitsNat(SubSeq(ds, 1, Len(ds) - 1)) + ds[Len(ds)]

Zeros(n) == [i \in 1..n |-> 0]

\* ds with zeros before it to the length n
PadTo(ds, n) == Zeros(n - Len(ds)) \o ds

\* a < b, for digits without leading zeros
BigLess(a, b) ==
  \/ Len(a) < Len(b)
  \/ /\ Len(a) = Len(b)
     /\ \E i \in 1..Len(a) : a[i] < b[i] /\ \A j \in 1..(i - 1) : a[j] = b[j]

RECURSIVE AddAt(_, _, _, _)
\* the digits 1..k of a + b + carry, a and b of one length; the carry out of
\* digit 1 is a digit more
AddAt(a, b, k, carry) ==
  IF k = 0 THEN (IF carry = 0 THEN <<>> ELSE <<carry>>)
  ELSE Append(AddAt(a, b, k - 1, (a[k] + b[k] + carry) \div 10), (a[k] + b[k] + carry) % 10)

BigAdd(a, b) ==
  LET n == IF Len(a) > Len(b) THEN Len(a) ELSE Len(b)
  IN  Strip(AddAt(PadTo(a, n), PadTo(b, n), n, 0))

RECURSIVE SubAt(_, _, _, _)
\* the digits 1..k of a - b - borrow, a and b of one length and a >= b
SubAt(a, b, k, borrow) ==
  IF k = 0 THEN <<>>
  ELSE Append(SubAt(a, b, k - 1, IF a[k] - b[k] - borrow < 0 THEN 1 ELSE 0),
              (a[k] - b[k] - borrow + 10) % 10)

\* a - b for a >= b
BigSub(a, b) == Strip(SubAt(a, PadTo(b, Len(a)), Len(a), 0))

RECURSIVE MulAt(_, _, _, _)
\* the digits 1..k of a * m + carry, m a small natural number
MulAt(a, m, k, carry) ==
  IF k = 0 THEN NatDigits(carry)
  ELSE Append(MulAt(a, m, k - 1, (a[k] * m + carry) \div 10), (a[k] * m + carry) % 10)

BigMulSmall(a, m) == Strip(MulAt(a, m, Len(a), 0))

RECURSIVE DivAt(_, _, _)
\* long division of the digits 1..k of a by the small natural number m: the
\* quotient digits and the remainder
DivAt(a, m, k) ==
  IF k = 0 THEN [quot |-> <<>>, rem |-> 0]
  ELSE LET p == DivAt(a, m, k - 1)
           t == p.rem * 10 + a[k]
       IN  [quot |-> Append(p.quot, t \div m), rem |-> t % m]

BigDivSmall(a, m) ==
  LET r == DivAt(a, m, Len(a)) IN [quot |-> Strip(r.quot), rem |-> r.rem]

IsOdd(ds) == ds # <<>> /\ ds[Len(ds)] % 2 = 1

Fits(ds) == ~BigLess(MAX_MANTISSA, ds)

WideZero == [neg |-> FALSE, mantissa |-> <<>>, scale |-> 0]

\* the mantissa without its last k digits, rounded half to even on what is
\* dropped
DropDigits(ds, k) ==
  LET p == PadTo(ds, IF Len(ds) > k THEN Len(ds) ELSE k)
      kept == Strip(SubSeq(p, 1, Len(p) - k))
      dropped == SubSeq(p, Len(p) - k + 1, Len(p))
      half == <<5>> \o Zeros(k - 1)
      up == k > 0 /\ ((\E i \in 1..k : dropped[i] # half[i] /\ dropped[i] > half[i]
                          /\ \A j \in 1..(i - 1) : dropped[j] = half[j])
                      \/ (dropped = half /\ IsOdd(kept)))
  IN  IF up THEN BigAdd(kept, <<1>>) ELSE kept

RECURSIVE Rescale(_, _, _, _)
\* the exact result mantissa / 10^scale brought to a Decimal: the fewest digits
\* k >= k0 are dropped that leave a scale of at most 28 and a mantissa below
\* 2^96, the rounding done once on all of them
Rescale(neg, ds, scale, k) ==
  IF scale - k <= MAX_SCALE /\ Fits(DropDigits(ds, k))
  THEN [neg |-> neg /\ DropDigits(ds, k) # <<>>, mantissa |-> DropDigits(ds, k),
        scale |-> scale - k]
  ELSE Rescale(neg, ds, scale, k + 1)

\* d1 * d2 (ops::mul), d2 of a mantissa that an integer of the model holds: a
\* zero factor gives Decimal::ZERO
DecMul(d1, d2) ==
  IF d1.mantissa = <<>> \/ d2.mantissa = <<>> THEN WideZero
  ELSE Rescale(d1.neg # d2.neg, BigMulSmall(d1.mantissa, DigitsNat(d2.mantissa)),
               d1.scale + d2.scale, 0)

\* the mantissa of d at the scale s >= d.scale
Aligned(d, s) == IF d.mantissa = <<>> THEN <<>> ELSE d.mantissa \o Zeros(s - d.scale)

\* d1 + d2 (ops::add): the exact sum at the larger scale, then rescaled
DecAdd(d1, d2) ==
  LET s == IF d1.scale > d2.scale THEN d1.scale ELSE d2.scale
      a == Aligned(d1, s)
      b == Aligned(d2, s)
  IN  IF d1.neg = d2.neg THEN Rescale(d1.neg, BigAdd(a, b), s, 0)
      ELSE IF BigLess(a, b) THEN Rescale(d2.neg, BigSub(b, a), s, 0)
      ELSE Rescale(d1.neg, BigSub(a, b), s, 0)

Negated(d) == [d EXCEPT !.neg = ~d.neg]

\* d1 - d2 (ops::sub)
DecSub(d1, d2) == DecAdd(d1, Negated(d2))

RECURSIVE DivDigits(_, _, _, _)
\* the quotient by the natural number n, a digit at a time: q and r are the
\* quotient and the remainder at the scale s; a digit more is taken while the
\* remainder is not zero, the scale is below 28 and the mantissa stays below
\* 2^96, and the last digit is rounded half to even on the remainder
DivDigits(q, r, n, s) ==
  IF r # 0 /\ s < MAX_SCALE /\ Fits(BigAdd(BigMulSmall(q, 10), NatDigits((r * 10) \div n)))
  THEN DivDigits(BigAdd(BigMulSmall(q, 10), NatDigits((r * 10) \div n)), (r * 10) % n, n, s + 1)
  ELSE [mantissa |-> IF 2 * r > n \/ (2 * r = n /\ IsOdd(q)) THEN BigAdd(q, <<1>>) ELSE q,
        scale |-> s]

\* d / Decimal::new(n, 0) (ops::div) for n > 0
DecDivNat(d, n) ==
  LET first == BigDivSmall(d.mantissa, n)
      q == DivDigits(first.quot, first.rem, n, d.scale)
  IN  [neg |-> d.neg /\ q.mantissa # <<>>, mantissa |-> q.mantissa, scale |-> q.scale]

RECURSIVE TrailingZeros(_)
TrailingZeros(ds) ==
  IF ds = <<>> \/ ds[Len(ds)] # 0 THEN 0 ELSE 1 + TrailingZeros(SubSeq(ds, 1, Len(ds) - 1))

\* the Decimal of the same value with the least scale: two Decimals are equal
\* (PartialEq) when these are the same
Normal(d) ==
  LET z == TrailingZeros(d.mantissa)
      k == IF z < d.scale THEN z ELSE d.scale
  IN  IF d.mantissa = <<>> THEN WideZero
      ELSE [neg |-> d.neg, mantissa |-> SubSeq(d.mantissa, 1, Len(d.mantissa) - k),
            scale |-> d.scale - k]

DecEq(d1, d2) == Normal(d1) = Normal(d2)

\* the Decimal the parser made, its mantissa in digits
Wide(d) == [neg |-> d.neg, mantissa |-> NatDigits(d.mantissa), scale |-> d.scale]

\* Decimal::new(num, scale) for num >= 0
DecimalNew(num, scale) == [neg |-> FALSE, mantissa |-> NatDigits(num), scale |-> scale]

(***************************************************************************)
(* Interpreter (InterpretedPcbRepairFile::from_parsed)                      *)
(***************************************************************************)
\* Decimal::new(254, 4)
mm_per_mil == DecimalNew(254, 4)

\* a pin number that falls back to the pin name only when it is empty
PinNumberZeroKept(board_pin) ==
  IF board_pin.pin_number = <<>> THEN board_pin.pin_name ELSE board_pin.pin_number

\* the match on board_pin.pin_number: "" and "0" give the pin name
PinNumber(board_pin) ==
  IF board_pin.pin_number = <<>> \/ board_pin.pin_number = <<"0">>
  THEN board_pin.pin_name
  ELSE board_pin.pin_number

\* a pin name that is the pin name of the board whatever the number
PinNameOfBoard(board_pin) == board_pin.pin_name

\* the pin name of the board when the number differs from it, the net name
\* otherwise
PinName(board_pin) ==
  IF PinNumber(board_pin) # board_pin.pin_name
  THEN board_pin.pin_name
  ELSE board_pin.net_name

\* a conversion that multiplies whatever the unit
ToMillimetersAlways(unit, d) == DecMul(Wide(d), mm_per_mil)

\* the match on content.units: a coordinate times mm_per_mil, or as it is
ToMillimeters(unit, d) ==
  IF unit = "Mils" THEN DecMul(Wide(d), mm_per_mil) ELSE Wide(d)

\* Pin { name, number, x_mm, y_mm, radius_mm }
InterpretedPin(unit, board_pin) ==
  [name |-> PinName(board_pin), number |-> PinNumber(board_pin),
   x_mm |-> ToMillimeters(unit, board_pin.pin_x),
   y_mm |-> ToMillimeters(unit, board_pin.pin_y),
   radius_mm |-> ToMillimeters(unit, board_pin.radius)]

\* an insertion that replaces the pins the footprint had
PushedAlone(map, fp_name, pin) ==
  [k \in DOMAIN map \cup {fp_name} |-> IF k = fp_name THEN <<pin>> ELSE map[k]]

\* footprint_pins.entry(fp_name).or_insert_with(Vec::new).push(pin)
Pushed(map, fp_name, pin) ==
  [k \in DOMAIN map \cup {fp_name} |->
     IF k = fp_name
     THEN (IF k \in DOMAIN map THEN Append(map[k], pin) ELSE <<pin>>)
     ELSE map[k]]

NotInterpreted == [status |-> "running", err |-> "", footprints |-> <<>>]

\* one iteration of the loop over content.pins
InterpretPin ==
  /\ interpreted.status = "running"
  /\ npins < Len(icontent.pins)
  /\ footprint_pins' =
       Pushed(footprint_pins, icontent.pins[npins + 1].refdes,
              InterpretedPin(icontent.units, icontent.pins[npins + 1]))
  /\ npins' = npins + 1
  /\ UNCHANGED <<icontent, footprints, interpreted>>

RECURSIVE Sum(_, _)
\* pins.iter().map(..).sum() over the first n coordinates: Decimal::ZERO and
\* each of them added in turn
Sum(ds, n) == IF n = 0 THEN WideZero ELSE DecAdd(Sum(ds, n - 1), ds[n])

\* a centering that takes the offsets from the pins in the reverse of their order
CenteredReversed(fp_pins) ==
  LET n == Len(fp_pins)
      total_x == Sum([j \in 1..n |-> fp_pins[j].x_mm], n)
      total_y == Sum([j \in 1..n |-> fp_pins[j].y_mm], n)
  IN  [j \in 1..n |->
         [fp_pins[n + 1 - j] EXCEPT
            !.x_mm = DecSub(fp_pins[n + 1 - j].x_mm, DecDivNat(total_x, n)),
            !.y_mm = DecSub(fp_pins[n + 1 - j].y_mm, DecDivNat(total_y, n))]]

\* a centering on the first pin of the footprint instead of the mean
CenteredOnFirstPin(fp_pins) ==
  [j \in 1..Len(fp_pins) |->
     [fp_pins[j] EXCEPT !.x_mm = DecSub(fp_pins[j].x_mm, fp_pins[1].x_mm),
                        !.y_mm = DecSub(fp_pins[j].y_mm, fp_pins[1].y_mm)]]

\* the pins of one footprint with avg_x and avg_y taken from their coordinates
Centered(fp_pins) ==
  LET total_x == Sum([j \in 1..Len(fp_pins) |-> fp_pins[j].x_mm], Len(fp_pins))
      total_y == Sum([j \in 1..Len(fp_pins) |-> fp_pins[j].y_mm], Len(fp_pins))
      avg_x == DecDivNat(total_x, Len(fp_pins))
      avg_y == DecDivNat(total_y, Len(fp_pins))
  IN  [j \in 1..Len(fp_pins) |->
         [fp_pins[j] EXCEPT !.x_mm = DecSub(fp_pins[j].x_mm, avg_x),
                         !.y_mm = DecSub(fp_pins[j].y_mm, avg_y)]]

\* footprints.insert(fp_name, FootprintInfo { pins })
Inserted(map, fp_name, info) ==
  [k \in DOMAIN map \cup {fp_name} |-> IF k = fp_name THEN info ELSE map[k]]

\* one iteration of the loop over footprint_pins, which a HashMap yields in
\* any order; footprint_pins keeps the groups the loop has taken, and the keys
\* of footprints tell which they are
CenterFootprint ==
  /\ interpreted.status = "running"
  /\ npins = Len(icontent.pins)
  /\ \E fp_name \in DOMAIN footprint_pins \ DOMAIN footprints :
       \E fp_pins \in {footprint_pins[fp_name]} :
         footprints' =
           IF fp_pins = <<>> THEN footprints
           ELSE Inserted(footprints, fp_name, [pins |-> Centered(fp_pins)])
  /\ UNCHANGED <<icontent, npins, footprint_pins, interpreted>>

\* Ok(Self { footprints })
ReturnInterpreted ==
  /\ interpreted.status = "running"
  /\ npins = Len(icontent.pins)
  /\ DOMAIN footprint_pins = DOMAIN footprints
  /\ interpreted' = [status |-> "Ok", err |-> "", footprints |-> footprints]
  /\ UNCHANGED <<icontent, npins, footprint_pins, footprints>>

(***************************************************************************)
(* The contents to interpret                                               *)
(***************************************************************************)
\* the number of pins of the longest content
MaxPins == 3

BoardPin(net_name, refdes, pin_number, pin_name, pin_x, pin_y, radius) ==
  MakePin(<<net_name, refdes, pin_number, pin_name, pin_x, pin_y, <<>>, radius>>)

Signed(neg, mantissa, scale) == [neg |-> neg, mantissa |-> mantissa, scale |-> scale]

BoardPins ==
  {BoardPin(<<"N", "1">>, <<"U", "1">>, <<"1">>, <<"A">>,
            Signed(FALSE, 100, 0), Signed(FALSE, 0, 0), Signed(FALSE, 5, 1)),
   BoardPin(<<"N", "2">>, <<"U", "1">>, <<>>, <<"G", "P", "I", "O", "3">>,
            Signed(FALSE, 0, 0), Signed(FALSE, 0, 0), Signed(FALSE, 1, 0)),
   BoardPin(<<"B">>, <<"U", "1">>, <<"0">>, <<"B">>,
            Signed(FALSE, 2, 0), Signed(FALSE, 0, 0), Signed(FALSE, 0, 0)),
   BoardPin(<<"N", "5">>, <<"U", "1">>, <<"3">>, <<"C">>,
            Signed(FALSE, 1, 0), Signed(FALSE, 3, 0), Signed(FALSE, 1, 1)),
   BoardPin(<<"N", "6">>, <<"U", "1">>, <<"4">>, <<>>,
            Signed(TRUE, 100, 0), Signed(TRUE, 15, 1), Signed(FALSE, 25, 2)),
   BoardPin(<<"N", "3">>, <<"R", "1">>, <<"2">>, <<"2">>,
            Signed(FALSE, 1, 28), Signed(FALSE, 1, 0), Signed(FALSE, 3, 25))}

\* no pin record twice
Distinct(records) ==
  \A i, j \in 1..Len(records) : records[i] = records[j] => i = j

Contents ==
  [units : {"Mils", "Millimeters"},
   pins : {records \in UNION {[1..n -> BoardPins] : n \in 0..MaxPins} : Distinct(records)}]

(***************************************************************************)
(* Specifications                                                          *)
(***************************************************************************)
IdleCipher ==
  /\ cdata = <<>> /\ ckey = ZeroSchedule /\ cphase = "idle" /\ cpos = 0
  /\ creg = ZeroRegister /\ cenc = <<>> /\ cdec = <<>> /\ cks = NoKeystream

\* decoder.rs decrypt is not called
IdleTwin ==
  /\ dec_key = [i \in 1..44 |-> <<0, 0>>]
  /\ dec_result = [NotCalled EXCEPT !.status = "idle"]

IdleDecode ==
  /\ made = NoScenario /\ raw = <<>> /\ trials = <<>>
  /\ dresult = [Running EXCEPT !.status = "idle"]

\* the locals of from_bytes before its loop
StartParse(status) ==
  /\ pstate = "Unknown" /\ units = "Mils"
  /\ symbols = <<>> /\ pins = <<>> /\ testvias = <<>> /\ graphic_data = <<>>
  /\ classed_graphic_data = <<>> /\ hist = <<>> /\ parsed = NoContent
  /\ presult = [status |-> status, err |-> ""]

IdleParse == StartParse("idle")

IdleDescribe ==
  /\ written = NothingWritten /\ description_str = <<>> /\ header = <<>>
  /\ component_reader = 0 /\ nth = 0 /\ components = <<>>
  /\ described = [NotDescribed EXCEPT !.status = "idle"]

NoPins == [units |-> "Mils", pins |-> <<>>]

IdleInterpret ==
  /\ icontent = NoPins /\ npins = 0 /\ footprint_pins = <<>> /\ footprints = <<>>
  /\ interpreted = [NotInterpreted EXCEPT !.status = "idle"]

\* test_decrypt on each input: encrypt, then decrypt what encrypt returned
InitCipher ==
  /\ cdata \in CipherInputs
  /\ ckey \in CipherKeys
  /\ cphase = "encrypt" /\ cpos = 0 /\ creg = ZeroRegister
  /\ cenc = <<>> /\ cdec = <<>> /\ cks = NoKeystream
  /\ IdleDecode /\ IdleParse /\ IdleDescribe /\ IdleInterpret /\ IdleTwin

NextCipher ==
  \/ EncryptStep /\ UNCHANGED <<dvars, pvars, tvars, ivars, evars>>
  \/ EncryptReturn /\ UNCHANGED <<dvars, pvars, tvars, ivars, evars>>
  \/ DecryptStep /\ UNCHANGED <<dvars, pvars, tvars, ivars, evars>>
  \/ DecryptReturn /\ UNCHANGED <<dvars, pvars, tvars, ivars, evars>>

SpecCipher == InitCipher /\ [][NextCipher]_vars

\* from_filename on the file of each scenario
InitDecode ==
  /\ made \in Scenarios
  /\ cdata = PlainOf(made)
  /\ ckey = KeyOf(made.enc)
  /\ cphase = IF made.enc = "none" THEN "idle" ELSE "encrypt"
  /\ cpos = 0 /\ creg = ZeroRegister
  /\ cenc = <<>> /\ cdec = <<>> /\ cks = NoKeystream
  /\ raw = <<>>
  /\ trials = <<>>
  /\ dresult = [Running EXCEPT !.status = "unwritten"]
  /\ IdleParse /\ IdleDescribe /\ IdleInterpret /\ IdleTwin

NextDecode ==
  \/ EncryptStep /\ UNCHANGED <<dvars, pvars, tvars, ivars, evars>>
  \/ WriteFile /\ UNCHANGED <<pvars, tvars, ivars, evars>>
  \/ TryPlain /\ UNCHANGED <<pvars, tvars, ivars, evars>>
  \/ BeginKeyA /\ UNCHANGED <<pvars, tvars, ivars, evars>>
  \/ BeginKeyB /\ UNCHANGED <<pvars, tvars, ivars, evars>>
  \/ DecryptStep /\ UNCHANGED <<dvars, pvars, tvars, ivars, evars>>
  \/ TryKeyA /\ UNCHANGED <<pvars, tvars, ivars, evars>>
  \/ TryKeyB /\ UNCHANGED <<pvars, tvars, ivars, evars>>

SpecDecode == InitDecode /\ [][NextDecode]_vars

\* Content::from_bytes on each sequence of rows
InitParse ==
  /\ IdleCipher /\ IdleDecode /\ StartParse("running") /\ IdleDescribe
  /\ IdleInterpret /\ IdleTwin

NextParse ==
  \/ \E record \in Rows : ProcessRecord(record) /\ UNCHANGED <<cvars, dvars, tvars, ivars, evars>>
  \/ ReturnContent /\ UNCHANGED <<cvars, dvars, tvars, ivars, evars>>

SpecParse == InitParse /\ [][NextParse]_vars

\* Description::from_bytes on each description
InitDescribe ==
  /\ IdleCipher /\ IdleDecode /\ IdleParse /\ IdleInterpret /\ IdleTwin
  /\ written \in Writings
  /\ description_str = TextOf(written)
  /\ header = <<>> /\ component_reader = 0 /\ nth = 0 /\ components = <<>>
  /\ described = NotDescribed

NextDescribe ==
  \/ ReadHeader /\ UNCHANGED <<cvars, dvars, pvars, ivars, evars>>
  \/ SkipRow /\ UNCHANGED <<cvars, dvars, pvars, ivars, evars>>
  \/ ReadRow /\ UNCHANGED <<cvars, dvars, pvars, ivars, evars>>
  \/ ReturnDescription /\ UNCHANGED <<cvars, dvars, pvars, ivars, evars>>

SpecDescribe == InitDescribe /\ [][NextDescribe]_vars

\* from_parsed on each content
InitInterpret ==
  /\ IdleCipher /\ IdleDecode /\ IdleParse /\ IdleDescribe /\ IdleTwin
  /\ icontent \in Contents
  /\ npins = 0 /\ footprint_pins = <<>> /\ footprints = <<>>
  /\ interpreted = NotInterpreted

NextInterpret ==
  \/ InterpretPin /\ UNCHANGED <<cvars, dvars, pvars, tvars, evars>>
  \/ CenterFootprint /\ UNCHANGED <<cvars, dvars, pvars, tvars, evars>>
  \/ ReturnInterpreted /\ UNCHANGED <<cvars, dvars, pvars, tvars, evars>>

SpecInterpret == InitInterpret /\ [][NextInterpret]_vars

\* crypto::decrypt and decoder::decrypt on each input, each with the schedule
\* its own file holds under one name
InitTwin ==
  /\ cenc \in CipherInputs
  /\ \E name \in KeyNames : ckey = CryptoKey(name) /\ dec_key = DecoderKey(name)
  /\ cdata = <<>> /\ cphase = "decrypt" /\ cpos = 0 /\ creg = ZeroRegister
  /\ cdec = <<>> /\ cks = NoKeystream
  /\ dec_result = NotCalled
  /\ IdleDecode /\ IdleParse /\ IdleDescribe /\ IdleInterpret

NextTwin ==
  \/ DecryptStep /\ UNCHANGED <<dvars, pvars, tvars, ivars, evars>>
  \/ DecryptReturn /\ UNCHANGED <<dvars, pvars, tvars, ivars, evars>>
  \/ DecoderDecryptCall /\ UNCHANGED <<cvars, dvars, pvars, tvars, ivars>>

SpecTwin == InitTwin /\ [][NextTwin]_vars

(***************************************************************************)
(* Properties of the container decoder (SpecDecode)                        *)
(***************************************************************************)
\* from_filename has returned what the chain of trials on the bytes read came
\* to, or has unwound from it (an error of the file system comes before decode
\* and has the status IoErr)
Decoded == dresult.status \in {"Ok", "Err", "Panic"}

SizeMismatch == "Decompressed size mismatch"

InvalidMagic == "Invalid zlib header"

\* the position in the chain of the candidate that reads a file written with key enc
TrialOf(enc) == CHOOSE k \in 1..3 : <<"none", "FZ", "CAE">>[k] = enc

\* C1: the trials are made in the order plaintext, key A (FZ), key B (CAE); a
\* candidate is tried only when every earlier one ended in an error value, it is
\* tried whenever they all did, and what decode returns is the result of the
\* first candidate that succeeds (of the last one when none does).
C1_TrialOrder ==
  /\ Len(trials) <= 3
  /\ \A k \in 1..Len(trials) : trials[k].key = <<"none", "FZ", "CAE">>[k]
  /\ \A k \in 1..Len(trials) : \A j \in 1..(k - 1) : trials[j].outcome = "Err"
  /\ Decoded =>
       /\ Len(trials) >= 1
       /\ Len(trials) < 3 => trials[Len(trials)].outcome # "Err"
       /\ dresult.status = trials[Len(trials)].outcome
       /\ dresult.content = trials[Len(trials)].content
       /\ dresult.description = trials[Len(trials)].description
       /\ dresult.status = "Ok" =>
            \A j \in 1..Len(trials) : trials[j].outcome = "Ok" <=> j = Len(trials)

\* a file written with key B decodes at the third trial, after two errors
C1_Witness ==
  /\ dresult.status = "Ok"
  /\ Len(trials) = 3
  /\ trials[1].outcome = "Err" /\ trials[2].outcome = "Err"
  /\ trials[3].key = "CAE"
  /\ Len(dresult.content) > 0

\* C2 as stated: a container whose content length is one more than the size of
\* its content makes decode fail, and the error the caller sees is the size
\* mismatch.
C2_CallerSeesSizeMismatch ==
  (Decoded /\ made.how = "content_len") =>
    dresult.status = "Err" /\ dresult.err = SizeMismatch

\* the framing of buffer b resolves outside it: off + 4 > L, ptr + 4 > L or
\* ptr + 4 > L - 4
OutOfFrame(b) ==
  LET L == Len(b)
      off == FromLeBytes(b, L - 3)
  IN  \/ ~AtMost(off, L - 4)
      \/ ~AtMost(FromLeBytes(b, L - UsizeOf(off) - 3), L - 8)

\* the buffer of a trial passes the magic check and its content stream decompresses
ReachesFraming(b) ==
  /\ Len(b) >= 5
  /\ b[5] = 120
  /\ Decompress(FromLeBytes(b, 1), SubSeq(b, 5, Len(b))).ok

\* C3 as stated: a trial whose buffer passes the magic check and whose backward
\* distance or pointer resolves outside the buffer ends in an error value; it
\* never panics.
C3_FramingErrorNotPanic ==
  \A k \in 1..Len(trials) :
    (ReachesFraming(trials[k].buf) /\ OutOfFrame(trials[k].buf)) =>
      trials[k].outcome = "Err"

\* C4: when decode returns Ok, the content has as many bytes as the word at
\* P[0..4] of the accepted buffer says and the description as many as the word
\* at P[ptr..ptr+4] says; a trial whose content stream decompresses to another
\* length than the declared one yields no result.
C4_DeclaredLengths ==
  /\ dresult.status = "Ok" =>
       LET P == trials[Len(trials)].buf
           L == Len(P)
           ptr == UsizeOf(FromLeBytes(P, L - UsizeOf(FromLeBytes(P, L - 3)) - 3))
       IN  /\ FromLeBytes(P, 1) = WordOf(Len(dresult.content))
           /\ FromLeBytes(P, ptr + 1) = WordOf(Len(dresult.description))
  /\ \A k \in 1..Len(trials) :
       (/\ Len(trials[k].buf) >= 5
        /\ Inflate(SubSeq(trials[k].buf, 5, Len(trials[k].buf))).ok
        /\ WordOf(Len(Inflate(SubSeq(trials[k].buf, 5, Len(trials[k].buf))).data))
             # FromLeBytes(trials[k].buf, 1))
       => trials[k].outcome # "Ok" /\ trials[k].content = <<>>

\* decode has returned a content of one byte and an empty description, each of
\* its declared length
C4_Witness ==
  /\ dresult.status = "Ok"
  /\ Len(dresult.content) = 1 /\ Len(dresult.description) = 0
  /\ FromLeBytes(trials[Len(trials)].buf, 1) = <<0, 1>>

\* C5: a trial whose buffer has another byte than 0x78 at offset 4 ends in the
\* invalid-magic error with no length, pointer or decompression step made, and
\* decode returns Ok only from a trial whose buffer has 0x78 there.
C5_MagicGate ==
  /\ \A k \in 1..Len(trials) :
       (Len(trials[k].buf) >= 5 /\ trials[k].buf[5] # 120) =>
         /\ trials[k].outcome = "Err"
         /\ trials[k].err = InvalidMagic
         /\ trials[k].steps = <<"magic">>
  /\ dresult.status = "Ok" =>
       /\ Len(trials[Len(trials)].buf) >= 5
       /\ trials[Len(trials)].buf[5] = 120

\* a container whose byte at offset 4 was changed to 0x79: the plaintext trial
\* stops at the magic check
C5_Witness ==
  /\ made.how = "magic" /\ made.enc = "none"
  /\ Len(trials) >= 1
  /\ trials[1].buf[5] = 121
  /\ trials[1].err = InvalidMagic

\* C6: a file built by the layout from the blobs C and D, left as built, decodes
\* to exactly C and D.
C6_FramingRoundTrip ==
  (Decoded /\ made.how = "none") =>
    /\ dresult.status = "Ok"
    /\ dresult.content = made.c
    /\ dresult.description = made.d

\* a plaintext container whose two streams are Huffman-compressed, with pad
\* bytes between the pointer slot and the backward distance, has decoded to its
\* two non-empty blobs
C6_Witness ==
  /\ Decoded /\ made.how = "none" /\ made.enc = "none" /\ made.pad > 0
  /\ made.pack = "fixed"
  /\ Len(made.c) > 0 /\ Len(made.d) > 0
  /\ dresult.content = made.c /\ dresult.description = made.d

(***************************************************************************)
(* Properties of the keystream cipher (SpecCipher)                         *)
(***************************************************************************)
\* C7: decrypt of what encrypt returned, under the same key schedule, is the
\* data that encrypt was handed.
C7_CipherRoundTrip == cphase = "done" => cdec = cdata

\* the round trip of seventeen bytes or more, which the cipher has changed
C7_Witness ==
  /\ cphase = "done"
  /\ Len(cdata) >= 17
  /\ cdec = cdata
  /\ cenc # cdata

\* the register decrypt holds before position i of input: the min(i, 16) most
\* recent input bytes, preceded by zeros
RegisterBefore(input, i) ==
  IF i >= 16 THEN SubSeq(input, i - 15, i)
  ELSE SubSeq(ZeroRegister, 1, 16 - i) \o SubSeq(input, 1, i)

\* C8: in decrypt the register is all zero at the start of the call; before
\* position i it holds the min(i, 16) most recent input bytes preceded by
\* zeros; the keystream byte of each position comes from the register as it was
\* before the update of that position, and the output byte is the input byte
\* xor that keystream byte, so no output byte enters the register.
C8_DecryptRegister ==
  cphase = "decrypt" =>
    /\ creg = RegisterBefore(cenc, cpos)
    /\ cpos = 0 => creg = ZeroRegister
    /\ cpos > 0 =>
         /\ cks.reg = RegisterBefore(cenc, cpos - 1)
         /\ cks.ks = KeystreamByte(cks.reg, ckey)
         /\ cdec[cpos] = Xor8(cenc[cpos], cks.ks)
         /\ creg = Append(Tail(cks.reg), cenc[cpos])

\* decrypt is past position 16 and its last output byte differs from the input
\* byte the register took
C8_Witness ==
  /\ cphase = "decrypt"
  /\ cpos >= 17
  /\ cdec[cpos] # cenc[cpos]
  /\ creg[16] = cenc[cpos]
  /\ creg[1] = cenc[cpos - 15]

(***************************************************************************)
(* Properties of the record parser (SpecParse)                             *)
(***************************************************************************)
\* the entry of the record consumed last
LastRead == hist[Len(hist)]

IsAnnotation(record) == Len(record) >= 2 /\ record[1] = <<"A">>

\* the record sequences of the locals p
Sequences5(p) ==
  <<p.symbols, p.pins, p.testvias, p.graphic_data, p.classed_graphic_data>>

\* C9: after an A row the state is the one its field 1 names, whatever the
\* state was before: REFDES gives Symbol, NET_NAME Pin, VIAID Via, TESTVIA
\* TestVia, GRAPHIC_DATA_NAME GraphicData, CLASS ClassedGraphicData; and an A
\* row leaves the five record sequences as they were.
C9_AnnotationSetsState ==
  (Len(hist) > 0 /\ IsAnnotation(LastRead.row)) =>
    /\ LastRead.row[2] = <<"R", "E", "F", "D", "E", "S">> => pstate = "Symbol"
    /\ LastRead.row[2] = <<"N", "E", "T", "_", "N", "A", "M", "E">> => pstate = "Pin"
    /\ LastRead.row[2] = <<"V", "I", "A", "I", "D">> => pstate = "Via"
    /\ LastRead.row[2] = <<"T", "E", "S", "T", "V", "I", "A">> => pstate = "TestVia"
    /\ LastRead.row[2] =
         <<"G", "R", "A", "P", "H", "I", "C", "_", "D", "A", "T", "A", "_", "N", "A", "M", "E">>
         => pstate = "GraphicData"
    /\ LastRead.row[2] = <<"C", "L", "A", "S", "S">> => pstate = "ClassedGraphicData"
    /\ Sequences5(Locals) = Sequences5(LastRead.before)

\* an A!VIAID row met the state Pin with one pin read, and left the state Via
\* and the pin
C9_Witness ==
  /\ Len(hist) = 3
  /\ LastRead.row = <<<<"A">>, <<"V", "I", "A", "I", "D">>>>
  /\ LastRead.before.state = "Pin"
  /\ pstate = "Via"
  /\ Len(pins) = 1

IsSubAnnotation(record) ==
  /\ IsAnnotation(record)
  /\ record[2] \in {<<"L", "O", "G", "O", "I", "n", "f", "o">>,
                    <<"U", "n", "D", "r", "a", "w", "S", "y", "m">>}

\* the state, the unit and the record sequences of the locals p
Parsed(p) == <<p.state, p.units, Sequences5(p)>>

\* C10: an A row named LOGOInfo or UnDrawSym leaves the state, the unit and the
\* five record sequences as they were and raises no error, whatever the state;
\* and the S row read next leaves what it would have left had it been read in
\* the place of that A row.
C10_SubAnnotationNoOp ==
  /\ (Len(hist) > 0 /\ IsSubAnnotation(LastRead.row)) =>
       /\ Parsed(Locals) = Parsed(LastRead.before)
       /\ presult.status \in {"running", "Ok"}
  /\ (Len(hist) > 1 /\ IsSubAnnotation(hist[Len(hist) - 1].row)
        /\ Len(LastRead.row) > 0 /\ LastRead.row[1] = <<"S">>) =>
       LET expected == AfterRecord(hist[Len(hist) - 1].before, LastRead.row)
       IN  /\ Parsed(Locals) = Parsed(expected)
           /\ presult.err = expected.err
           /\ IF expected.status = "running" THEN presult.status \in {"running", "Ok"}
              ELSE presult.status = expected.status

\* A!NET_NAME, A!LOGOInfo, then an S row: it was read as a Pin row
C10_Witness ==
  /\ Len(hist) = 3
  /\ hist[1].row = <<<<"A">>, <<"N", "E", "T", "_", "N", "A", "M", "E">>>>
  /\ hist[2].row = <<<<"A">>, <<"L", "O", "G", "O", "I", "n", "f", "o">>>>
  /\ Len(hist[3].row) = 9 /\ hist[3].row[1] = <<"S">>
  /\ pstate = "Pin"
  /\ Len(pins) = 1
  /\ pins[1].refdes = <<"U", "1">>
  /\ presult.status = "running"

\* the names of the A rows that the parser knows
KnownNames ==
  {<<"U", "N", "I", "T">>, <<"R", "E", "F", "D", "E", "S">>,
   <<"N", "E", "T", "_", "N", "A", "M", "E">>, <<"V", "I", "A", "I", "D">>,
   <<"T", "E", "S", "T", "V", "I", "A">>,
   <<"G", "R", "A", "P", "H", "I", "C", "_", "D", "A", "T", "A", "_", "N", "A", "M", "E">>,
   <<"C", "L", "A", "S", "S">>, <<"L", "O", "G", "O", "I", "n", "f", "o">>,
   <<"U", "n", "D", "r", "a", "w", "S", "y", "m">>}

IsData(record) == Len(record) >= 1 /\ record[1] = <<"S">>

\* C11: after an A row whose name is none of the known ones the state is
\* Unknown; an S row read in state Unknown or Via leaves the state, the unit and
\* the five record sequences as they were and raises no error, whatever its
\* fields and however few they are.
C11_UnknownDropsRows ==
  /\ (Len(hist) > 0 /\ IsAnnotation(LastRead.row) /\ LastRead.row[2] \notin KnownNames) =>
       pstate = "Unknown" /\ presult.status \in {"running", "Ok"}
  /\ (Len(hist) > 0 /\ IsData(LastRead.row)
        /\ LastRead.before.state \in {"Unknown", "Via"}) =>
       /\ Parsed(Locals) = Parsed(LastRead.before)
       /\ presult.status \in {"running", "Ok"}

\* the Pin section began, an unknown section followed, and the S row of two fields
\* read next was dropped
C11_Witness ==
  /\ Len(hist) = 3
  /\ IsAnnotation(hist[2].row) /\ hist[2].row[2] = <<"V", "E", "R">>
  /\ hist[2].before.state = "Pin"
  /\ IsData(hist[3].row) /\ Len(hist[3].row) = 2
  /\ pstate = "Unknown"
  /\ presult.status = "running"

\* the decimal number m / 10^s
Dec(m, s) == [neg |-> FALSE, mantissa |-> m, scale |-> s]

\* C12: an S row read in state Pin that raises no error appends exactly one Pin,
\* made of its fields 1 to 8 in this order: net_name, refdes, pin_number,
\* pin_name, x, y, test_point, radius; the rows A!UNIT!mils, A!NET_NAME,
\* S!N1!U1!1!A!10!20!!0.5 leave the unit Mils, the one Pin with refdes U1,
\* pin_number 1, pin_name A, x = 10, y = 20, radius = 0.5, and no other record.
C12_PinRow ==
  /\ (Len(hist) > 0 /\ IsData(LastRead.row) /\ LastRead.before.state = "Pin"
        /\ presult.status \in {"running", "Ok"}) =>
       /\ Len(pins) = Len(LastRead.before.pins) + 1
       /\ SubSeq(pins, 1, Len(pins) - 1) = LastRead.before.pins
       /\ pins[Len(pins)].net_name = LastRead.row[2]
       /\ pins[Len(pins)].refdes = LastRead.row[3]
       /\ pins[Len(pins)].pin_number = LastRead.row[4]
       /\ pins[Len(pins)].pin_name = LastRead.row[5]
       /\ pins[Len(pins)].pin_x = ParseDecimal(LastRead.row[6]).value
       /\ pins[Len(pins)].pin_y = ParseDecimal(LastRead.row[7]).value
       /\ pins[Len(pins)].test_point = LastRead.row[8]
       /\ pins[Len(pins)].radius = ParseDecimal(LastRead.row[9]).value
       /\ <<symbols, testvias, graphic_data, classed_graphic_data>> =
            <<LastRead.before.symbols, LastRead.before.testvias,
              LastRead.before.graphic_data, LastRead.before.classed_graphic_data>>
  /\ (/\ Len(hist) = 3
      /\ hist[1].row = <<<<"A">>, <<"U", "N", "I", "T">>, <<"m", "i", "l", "s">>>>
      /\ hist[2].row = <<<<"A">>, <<"N", "E", "T", "_", "N", "A", "M", "E">>>>
      /\ hist[3].row = <<<<"S">>, <<"N", "1">>, <<"U", "1">>, <<"1">>, <<"A">>,
                         <<"1", "0">>, <<"2", "0">>, <<>>, <<"0", ".", "5">>>>) =>
       /\ units = "Mils"
       /\ pins = <<[net_name |-> <<"N", "1">>, refdes |-> <<"U", "1">>,
                    pin_number |-> <<"1">>, pin_name |-> <<"A">>,
                    pin_x |-> Dec(10, 0), pin_y |-> Dec(20, 0),
                    test_point |-> <<>>, radius |-> Dec(5, 1)]>>
       /\ <<symbols, testvias, graphic_data, classed_graphic_data>> =
            <<<<>>, <<>>, <<>>, <<>>>>
       /\ presult.status \in {"running", "Ok"}

\* the three rows of the example have been read and the Content returned
C12_Witness ==
  /\ Len(hist) = 3
  /\ hist[1].row = <<<<"A">>, <<"U", "N", "I", "T">>, <<"m", "i", "l", "s">>>>
  /\ hist[2].row = <<<<"A">>, <<"N", "E", "T", "_", "N", "A", "M", "E">>>>
  /\ hist[3].row = <<<<"S">>, <<"N", "1">>, <<"U", "1">>, <<"1">>, <<"A">>,
                     <<"1", "0">>, <<"2", "0">>, <<>>, <<"0", ".", "5">>>>
  /\ presult.status = "Ok"
  /\ Len(parsed.pins) = 1

IsUnitRow(record) ==
  Len(record) >= 3 /\ record[1] = <<"A">> /\ record[2] = <<"U", "N", "I", "T">>

\* the unit that the locals held once row k had been read
UnitAfter(k) == IF k = Len(hist) THEN units ELSE hist[k + 1].before.units

\* C13 as stated: once a UNIT row has set the unit, no later row changes it.
C13_UnitSetOnce ==
  \A k \in 1..Len(hist) :
    (IsUnitRow(hist[k].row) /\ presult.status \in {"running", "Ok"}) =>
      units = UnitAfter(k)

\* the unit named by field 2 of a UNIT row
NamedUnit(record) ==
  IF record[3] = <<"m", "i", "l", "s">> THEN "Mils" ELSE "Millimeters"

\* C13 amended: every UNIT row sets the unit from its field 2, so that the unit
\* is the one named by the last UNIT row read, Mils when there was none; no
\* other row changes the unit.
C13_LastUnitRowWins ==
  /\ \A k \in 1..Len(hist) :
       IF IsUnitRow(hist[k].row) THEN UnitAfter(k) = NamedUnit(hist[k].row)
       ELSE UnitAfter(k) = hist[k].before.units
  /\ (\A k \in 1..Len(hist) : ~IsUnitRow(hist[k].row)) => units = "Mils"

\* A!UNIT!mm, then A!UNIT!mils: the second row has changed the unit back
C13_Witness ==
  /\ Len(hist) >= 2
  /\ IsUnitRow(hist[1].row) /\ NamedUnit(hist[1].row) = "Millimeters"
  /\ IsUnitRow(hist[2].row) /\ NamedUnit(hist[2].row) = "Mils"
  /\ hist[2].before.units = "Millimeters"
  /\ UnitAfter(2) = "Mils"

DecimalDigits == {"0", "1", "2", "3", "4", "5", "6", "7", "8", "9"}

\* text without the + it may begin with
Unsigned(text) == IF Len(text) > 0 /\ text[1] = "+" THEN Tail(text) ELSE text

\* the digits of text from the first that is not 0 on
Significant(text) ==
  SubSeq(text, 1 + Cardinality({i \in 1..Len(text) : \A j \in 1..i : text[j] = "0"}),
         Len(text))

\* the number that the digit characters of text denote is at most the one whose
\* digits are max
NotAbove(text, max) ==
  \E s \in {Significant(text)} :
    \/ Len(s) < Len(max)
    \/ /\ Len(s) = Len(max)
       /\ \A i \in 1..Len(s) :
            (\A j \in 1..(i - 1) : DigitValue(s[j]) = max[j]) => DigitValue(s[i]) <= max[i]

\* text is an integer of the type whose largest value has the digits max, as
\* from_str takes it: an optional +, then decimal digits, one at least, that
\* denote a value of the type
WellFormedInteger(text, max) ==
  /\ Len(Unsigned(text)) > 0
  /\ \A i \in 1..Len(Unsigned(text)) : Unsigned(text)[i] \in DecimalDigits
  /\ NotAbove(Unsigned(text), max)

\* text is a decimal number: an optional sign, then digits, one at least, with
\* at most one point or comma among them
WellFormedDecimal(text) ==
  LET body == IF Len(text) > 0 /\ text[1] \in {"+", "-"} THEN Tail(text) ELSE text
  IN  /\ \E i \in 1..Len(body) : body[i] \in DecimalDigits
      /\ \A i \in 1..Len(body) : body[i] \in DecimalDigits \cup {".", ","}
      /\ Cardinality({i \in 1..Len(body) : body[i] \in {".", ","}}) <= 1

\* text is a number of the type: a u64, a u16 or a decimal
WellFormedNumber(text, type) ==
  CASE type = "u64" -> WellFormedInteger(text, U64_MAX)
    [] type = "u16" -> WellFormedInteger(text, <<6, 5, 5, 3, 5>>)
    [] type = "dec" -> WellFormedDecimal(text)

\* the fields of a row that state consumes as numbers: <<index, type>>
ConsumedNumbers(state) ==
  CASE state = "Symbol" -> {<<2, "u64">>, <<5, "u16">>}
    [] state = "Pin" -> {<<5, "dec">>, <<6, "dec">>, <<8, "dec">>}
    [] state = "TestVia" -> {<<6, "dec">>, <<7, "dec">>, <<9, "dec">>}
    [] state = "GraphicData" -> {<<2, "u64">>}
    [] state = "ClassedGraphicData" -> {<<4, "u64">>}
    [] OTHER -> {}

\* the number of fields of the rows that state reads
FieldsRead(state) ==
  CASE state = "Symbol" -> 6
    [] state = "Pin" -> 9
    [] state = "TestVia" -> 10
    [] state = "GraphicData" -> 16
    [] state = "ClassedGraphicData" -> 16
    [] OTHER -> 1

\* row has all the fields that state reads, and one that state consumes as a
\* number is none
Malformed(state, row) ==
  /\ Len(row) >= FieldsRead(state)
  /\ \E c \in ConsumedNumbers(state) : ~WellFormedNumber(row[c[1] + 1], c[2])

TooShort(state, row) ==
  \/ row[1] = <<"A">> /\ Len(row) < 2
  \/ row[1] = <<"A">> /\ Len(row) = 2 /\ row[2] = <<"U", "N", "I", "T">>
  \/ /\ row[1] = <<"S">>
     /\ Len(row) < FieldsRead(state)
     /\ \A c \in ConsumedNumbers(state) :
          c[1] < Len(row) => WellFormedNumber(row[c[1] + 1], c[2])

\* C15 as stated: a row with fewer fields than the parser reads from it makes
\* the parse return an error value; it never panics.
C15_ShortRowIsError ==
  (Len(hist) > 0 /\ Len(LastRead.row) > 0
     /\ TooShort(LastRead.before.state, LastRead.row)) =>
    presult.status = "Err"

(***************************************************************************)
(* Description parser                                                      *)
(***************************************************************************)
\* the header the description was written with has fewer than five fields
ShortHeader == Len(written.header) < 5

\* C16: a description whose line 0 has fewer than five |-separated fields, the
\* empty description among them, is refused with an error and never parsed
\* further; a description that parses has its first five header fields, in
\* order, as board model, revision, extended board model, extended revision and
\* part number, whatever fields follow them.
C16_HeaderGate ==
  described.status # "idle" =>
    /\ ShortHeader =>
         /\ header = <<>> /\ nth = 0 /\ components = <<>>
         /\ described \in {NotDescribed, DescribeFailed("Invalid header format")}
    /\ described.status = "Ok" =>
         /\ ~ShortHeader
         /\ described.value.board_model = written.header[1]
         /\ described.value.revision = written.header[2]
         /\ described.value.extended_board_model = written.header[3]
         /\ described.value.extended_revision = written.header[4]
         /\ described.value.part_number = written.header[5]

\* a description with six header fields, the second one empty, and no table
\* after them was parsed
C16_Witness ==
  /\ described.status = "Ok" /\ Len(written.header) = 6
  /\ described.value.revision = <<>> /\ described.value.part_number = <<"P", "N">>
  /\ Len(written.rows) = 0

IsEmptyLine(row) == row = <<<<>>>>

IsRow(row) == ~IsEmptyLine(row)

\* the rows of the table: the lines of the whole text that are not empty, the
\* header line being the first
TableOf(w) == <<w.header>> \o SelectSeq(w.rows, IsRow)

\* a row that gives a Component: five fields or more, the quantity a u64
ValidComponentRow(row) == Len(row) >= 5 /\ WellFormedInteger(row[3], U64_MAX)

\* the value of a quantity: its digits from the first that is not 0 on
QuantityOf(text) ==
  LET s == Significant(Unsigned(text))
  IN  IF s = <<>> THEN <<0>> ELSE [i \in 1..Len(s) |-> DigitValue(s[i])]

\* no character of text at index i, or one with the property White_Space
Blank(text, i) == i < 1 \/ i > Len(text) \/ text[i] \in White_Space

\* the indices of text where a token begins: a character that is not blank
\* after one that is
TokenStarts(text) == {i \in 1..Len(text) : ~Blank(text, i) /\ Blank(text, i - 1)}

\* the index where the k-th token of text begins
TokenStart(text, k) ==
  CHOOSE i \in TokenStarts(text) : Cardinality({j \in TokenStarts(text) : j < i}) = k - 1

\* the index where the token that begins at index i ends
TokenEnd(text, i) ==
  CHOOSE j \in i..Len(text) : Blank(text, j + 1) /\ \A m \in i..j : ~Blank(text, m)

\* the whitespace-separated tokens of text: its longest runs of characters that
\* are not blank, from left to right
TokensOf(text) ==
  [k \in 1..Cardinality(TokenStarts(text)) |->
     SubSeq(text, TokenStart(text, k), TokenEnd(text, TokenStart(text, k)))]

RECURSIVE ComponentsOf(_, _)
\* the Components of the rows 3..n of the table t, in row order
ComponentsOf(t, n) ==
  IF n <= 2 THEN <<>>
  ELSE IF ValidComponentRow(t[n])
    THEN Append(ComponentsOf(t, n - 1),
                [part_number |-> t[n][1], description |-> t[n][2],
                 quantity |-> QuantityOf(t[n][3]),
                 location |-> TokensOf(t[n][4]), part_number2 |-> t[n][5]])
  ELSE ComponentsOf(t, n - 1)

\* C17: once the header is accepted, the first two rows of the table give no
\* Component; each later row read that has five fields or more and an integer
\* quantity (a u64 as from_str takes it, a leading + included) gives exactly one
\* Component, made of its fields 0, 1, 2, the whitespace-separated tokens of
\* field 3, and field 4, in row order; a row of fewer than five fields gives
\* none and no error, so that the only error is a row of five fields or more
\* whose quantity is no such integer; and the description returned holds the
\* Components of all the rows.
C17_TableRows ==
  (described.status # "idle" /\ header # <<>>) =>
    \E t \in {TableOf(written)} :
      /\ nth <= Len(t)
      /\ components = ComponentsOf(t, nth)
      /\ described.status = "Err" <=>
           (nth > 2 /\ Len(t[nth]) >= 5 /\ ~WellFormedInteger(t[nth][3], U64_MAX))
      /\ described.status = "Ok" =>
           (nth = Len(t) /\ described.value.components = components)

\* a description was returned whose table had, after the first two rows, a row
\* of four fields between two rows that each gave a Component: the first with
\* the quantity 2 and a location of two tokens, the second with the quantity
\* +18446744073709551615 and a location whose three tokens stand between
\* U+00A0, U+000B, U+000C, U+0085 and U+3000
C17_Witness ==
  /\ described.status = "Ok"
  /\ Len(written.rows) = 4
  /\ Len(written.rows[3]) = 4
  /\ Len(described.value.components) = 2
  /\ described.value.components[1].description = <<"r", QUOTE, "s">>
  /\ described.value.components[1].location = <<<<"R", "1">>, <<"R", "2">>>>
  /\ described.value.components[1].quantity = <<2>>
  /\ described.value.components[2].location = <<<<"T", "1">>, <<"T", "2">>, <<"T", "3">>>>
  /\ described.value.components[2].quantity =
       <<1, 8, 4, 4, 6, 7, 4, 4, 0, 7, 3, 7, 0, 9, 5, 5, 1, 6, 1, 5>>
  /\ described.value.components[2].part_number2 = <<"q", "4">>

(***************************************************************************)
(* Interpreter                                                             *)
(***************************************************************************)
\* the pin records of the first n that have the refdes k, in their order
RecordsOf(k, n) ==
  LET Named(p) == p.refdes = k IN SelectSeq(SubSeq(icontent.pins, 1, n), Named)

\* every group of the first loop has one pin for each pin record taken of its
\* refdes, in their order, and P(record, pin) holds of each such pair
EveryGroupedPin(P(_, _)) ==
  \A k \in DOMAIN footprint_pins :
    /\ Len(footprint_pins[k]) = Len(RecordsOf(k, npins))
    /\ \A j \in 1..Len(footprint_pins[k]) : P(RecordsOf(k, npins)[j], footprint_pins[k][j])

\* the same of every footprint inserted, and the footprints returned are the
\* footprints inserted
EveryCenteredPin(P(_, _)) ==
  /\ \A k \in DOMAIN footprints :
       /\ Len(footprints[k].pins) = Len(RecordsOf(k, npins))
       /\ \A j \in 1..Len(footprints[k].pins) : P(RecordsOf(k, npins)[j], footprints[k].pins[j])
  /\ interpreted.status = "Ok" => interpreted.footprints = footprints

EveryPin(P(_, _)) == EveryGroupedPin(P) /\ EveryCenteredPin(P)

RawNumberKept(record, pin) ==
  pin.number = IF record.pin_number \in {<<>>, <<"0">>} THEN record.pin_name
               ELSE record.pin_number

\* C18: the number of every interpreted pin is the pin number of its record,
\* unless that is empty or "0", and then it is the pin name of its record.
C18_EffectivePinNumber == interpreted.status # "idle" => EveryPin(RawNumberKept)

\* U1 was returned from the records numbered 1, "" and 0 in this order, with the
\* numbers 1, GPIO3 and B
C18_Witness ==
  /\ interpreted.status = "Ok"
  /\ Len(icontent.pins) = 3
  /\ [j \in 1..3 |-> icontent.pins[j].pin_number] = <<<<"1">>, <<>>, <<"0">>>>
  /\ [j \in 1..3 |-> interpreted.footprints[<<"U", "1">>].pins[j].number]
       = <<<<"1">>, <<"G", "P", "I", "O", "3">>, <<"B">>>>

DisplayName(record, pin) ==
  /\ pin.name = IF record.pin_name # pin.number THEN record.pin_name ELSE record.net_name
  /\ (record.pin_number = <<>> /\ record.pin_name = <<"G", "P", "I", "O", "3">>)
       => (pin.number = <<"G", "P", "I", "O", "3">> /\ pin.name = record.net_name)
  /\ pin.name = pin.number => record.net_name = pin.number

\* C19: the name of every interpreted pin is the pin name of its record when
\* that differs from the pin's number, and the net name of its record otherwise;
\* a record of pin number "" and pin name GPIO3 gives the number GPIO3 and the
\* net name as name; and the name equals the number only if the net name does.
C19_DisplayName == interpreted.status # "idle" => EveryPin(DisplayName)

\* U1 was returned from the record GPIO3 without a number, the record B of
\* number 0 and net B, and the record A of number 1: the first is named by its
\* net N2, the second has its name equal to its number as its net is, and the
\* third keeps its pin name
C19_Witness ==
  /\ interpreted.status = "Ok"
  /\ Len(icontent.pins) = 3
  /\ [j \in 1..3 |-> icontent.pins[j].pin_name]
       = <<<<"G", "P", "I", "O", "3">>, <<"B">>, <<"A">>>>
  /\ [j \in 1..3 |-> interpreted.footprints[<<"U", "1">>].pins[j].name]
       = <<<<"N", "2">>, <<"B">>, <<"A">>>>
  /\ [j \in 1..3 |-> interpreted.footprints[<<"U", "1">>].pins[j].number]
       = <<<<"G", "P", "I", "O", "3">>, <<"B">>, <<"1">>>>

\* the value d * 0.0254 as mantissa / 10^scale, whatever its scale
ExactMillimeters(d) ==
  Normal([neg |-> d.neg, mantissa |-> NatDigits(d.mantissa * 254), scale |-> d.scale + 4])

\* v is mm, or mm brought to 28 decimal places within half a unit of the last
\* when it has more
NearestOf28Places(v, mm) ==
  IF mm.scale <= MAX_SCALE THEN Normal(v) = mm
  ELSE \E e \in {mm.scale - MAX_SCALE} : \E r \in {DigitsNat(Aligned(v, MAX_SCALE))} :
         LET diff == DigitsNat(mm.mantissa) - r * (10 ^ e)
         IN  /\ v.scale <= MAX_SCALE
             /\ (r = 0 \/ v.neg = mm.neg)
             /\ 2 * diff <= 10 ^ e /\ 2 * diff >= -(10 ^ e)

IsExactly(v, d) ==
  IF icontent.units = "Mils" THEN Normal(v) = ExactMillimeters(d) ELSE v = Wide(d)

IsNearly(v, d) ==
  IF icontent.units = "Mils" THEN NearestOf28Places(v, ExactMillimeters(d)) ELSE v = Wide(d)

ConvertedExactly(record, pin) ==
  /\ IsExactly(pin.x_mm, record.pin_x)
  /\ IsExactly(pin.y_mm, record.pin_y)
  /\ IsExactly(pin.radius_mm, record.radius)

RadiusConvertedExactly(record, pin) == IsExactly(pin.radius_mm, record.radius)

\* C20 as the specification states it: before centering, in Mils the x, y and
\* radius of every pin are exactly those of its record times 0.0254, in
\* Millimeters they are those of its record; and the radius returned is this
\* one.  A coordinate of more than 24 decimal places refutes it.
C20_ExactConversion ==
  interpreted.status # "idle" =>
    EveryGroupedPin(ConvertedExactly) /\ EveryCenteredPin(RadiusConvertedExactly)

Converted(record, pin) ==
  /\ IsNearly(pin.x_mm, record.pin_x)
  /\ IsNearly(pin.y_mm, record.pin_y)
  /\ IsNearly(pin.radius_mm, record.radius)

RadiusConverted(record, pin) == IsNearly(pin.radius_mm, record.radius)

\* C20, amended: before centering, in Mils the x, y and radius of every pin are
\* those of its record times 0.0254, exactly when the product has at most 28
\* decimal places and otherwise brought to the nearest value of 28 decimal
\* places; in Millimeters they are those of its record; and the radius returned
\* is this one.
C20_ConversionTo28Places ==
  interpreted.status # "idle" =>
    EveryGroupedPin(Converted) /\ EveryCenteredPin(RadiusConverted)

\* a content in Mils was returned whose first pin, at x = 100 with radius 0.5,
\* was grouped at x = 2.54 and returned with radius 0.0127, and whose second
\* pin, at x = 10^-28 with radius 3 * 10^-25, was grouped at x = 0 and returned
\* with radius 76 * 10^-28
C20_Witness ==
  /\ interpreted.status = "Ok"
  /\ icontent.units = "Mils"
  /\ Len(icontent.pins) = 2
  /\ icontent.pins[1].pin_x = Signed(FALSE, 100, 0)
  /\ icontent.pins[2].pin_x = Signed(FALSE, 1, 28)
  /\ Normal(footprint_pins[<<"U", "1">>][1].x_mm) = [neg |-> FALSE, mantissa |-> <<2, 5, 4>>, scale |-> 2]
  /\ Normal(interpreted.footprints[<<"U", "1">>].pins[1].radius_mm)
       = [neg |-> FALSE, mantissa |-> <<1, 2, 7>>, scale |-> 4]
  /\ footprint_pins[<<"R", "1">>][1].x_mm.mantissa = <<>>
  /\ interpreted.footprints[<<"R", "1">>].pins[1].radius_mm
       = [neg |-> FALSE, mantissa |-> <<7, 6>>, scale |-> 28]

\* d1 + d2 as a value, with no limit on the digits
ExactAdd(d1, d2) ==
  LET s == IF d1.scale > d2.scale THEN d1.scale ELSE d2.scale
      a == Aligned(d1, s)
      b == Aligned(d2, s)
  IN  IF d1.neg = d2.neg THEN [neg |-> d1.neg, mantissa |-> BigAdd(a, b), scale |-> s]
      ELSE IF BigLess(a, b) THEN [neg |-> d2.neg, mantissa |-> BigSub(b, a), scale |-> s]
      ELSE [neg |-> d1.neg, mantissa |-> BigSub(a, b), scale |-> s]

RECURSIVE ExactSum(_, _)
\* the sum of the first n of ds as a value
ExactSum(ds, n) == IF n = 0 THEN WideZero ELSE ExactAdd(ExactSum(ds, n - 1), ds[n])

\* the sums of the x_mm and of the y_mm of the pins of the footprint k
TotalX(k) ==
  ExactSum([j \in 1..Len(footprints[k].pins) |-> footprints[k].pins[j].x_mm],
           Len(footprints[k].pins))

TotalY(k) ==
  ExactSum([j \in 1..Len(footprints[k].pins) |-> footprints[k].pins[j].y_mm],
           Len(footprints[k].pins))

\* C21 as the specification states it: in every footprint inserted, the x_mm of
\* the pins sum to exactly 0 and so do their y_mm.  Three pins at x = 0, 0 and
\* 100 refute it: their mean has no finite decimal expansion.
C21_MeanExactlyZero ==
  \A k \in DOMAIN footprints : TotalX(k).mantissa = <<>> /\ TotalY(k).mantissa = <<>>

\* |d| < 10^-places
Below(d, places) ==
  \/ d.mantissa = <<>>
  \/ /\ d.scale >= places
     /\ BigLess(d.mantissa, <<1>> \o Zeros(d.scale - places))

\* the x and y of the pin records of the refdes k, and of its centered pins
RecordXY(k) ==
  [j \in 1..Len(RecordsOf(k, npins)) |->
     <<RecordsOf(k, npins)[j].pin_x, RecordsOf(k, npins)[j].pin_y>>]

CenteredXY(k) ==
  [j \in 1..Len(footprints[k].pins) |->
     <<Normal(footprints[k].pins[j].x_mm), Normal(footprints[k].pins[j].y_mm)>>]

Whole(neg, n) == [neg |-> neg, mantissa |-> NatDigits(n), scale |-> 0]

\* C21, amended: in every footprint inserted the mean of the x_mm and the mean
\* of the y_mm are 0 up to the rounding of the Decimal quotient and differences:
\* below 10^-22 in magnitude for the coordinates of the model; and pins at
\* (0,0), (2,0), (1,3) in millimeters center to (-1,-1), (1,-1), (0,2), whose
\* means are exactly 0.
C21_MeanZeroUpToRounding ==
  \A k \in DOMAIN footprints :
    /\ Below(TotalX(k), 22) /\ Below(TotalY(k), 22)
    /\ (icontent.units = "Millimeters"
        /\ RecordXY(k) = <<<<Signed(FALSE, 0, 0), Signed(FALSE, 0, 0)>>,
                           <<Signed(FALSE, 2, 0), Signed(FALSE, 0, 0)>>,
                           <<Signed(FALSE, 1, 0), Signed(FALSE, 3, 0)>>>>)
       => /\ CenteredXY(k) = <<<<Whole(TRUE, 1), Whole(TRUE, 1)>>,
                               <<Whole(FALSE, 1), Whole(TRUE, 1)>>,
                               <<Whole(FALSE, 0), Whole(FALSE, 2)>>>>
          /\ TotalX(k).mantissa = <<>> /\ TotalY(k).mantissa = <<>>

\* U1 was returned from pins at (0,0), (2,0), (1,3) in millimeters, centered to
\* x = -1, 1, 0
C21_Witness ==
  /\ interpreted.status = "Ok"
  /\ <<"U", "1">> \in DOMAIN footprints
  /\ Len(footprints[<<"U", "1">>].pins) = 3
  /\ icontent.units = "Millimeters"
  /\ [j \in 1..3 |-> icontent.pins[j].pin_x]
       = <<Signed(FALSE, 0, 0), Signed(FALSE, 2, 0), Signed(FALSE, 1, 0)>>
  /\ [j \in 1..3 |-> Normal(footprints[<<"U", "1">>].pins[j].x_mm)]
       = <<Whole(TRUE, 1), Whole(FALSE, 1), Whole(FALSE, 0)>>

\* the refdes of the pin records taken
RefdesTaken == {icontent.pins[i].refdes : i \in 1..npins}

\* the places of the pins of the footprints of map: <<refdes, index>>
PlacesOf(map) == UNION {{<<k, j>> : j \in 1..Len(map[k])} : k \in DOMAIN map}

PinsOfFootprints == [k \in DOMAIN footprints |-> footprints[k].pins]

\* C22: the pin records are partitioned by refdes: the groups of the first loop
\* are keyed by the refdes of the records taken, each holds one pin for each
\* record of its refdes, in their order, so that the pins are as many as the
\* records; every footprint inserted is one of these groups, pin for pin, and
\* has one pin at least; and the footprints returned are all of the groups.
C22_PartitionByRefdes ==
  interpreted.status # "idle" =>
    /\ DOMAIN footprint_pins = RefdesTaken
    /\ EveryPin(RawNumberKept)
    /\ Cardinality(PlacesOf(footprint_pins)) = npins
    /\ DOMAIN footprints \subseteq DOMAIN footprint_pins
    /\ \A k \in DOMAIN footprints : Len(footprints[k].pins) >= 1
    /\ interpreted.status = "Ok" =>
         /\ npins = Len(icontent.pins)
         /\ DOMAIN interpreted.footprints = RefdesTaken
         /\ Cardinality(PlacesOf(PinsOfFootprints)) = Len(icontent.pins)

\* a content of three pins, of U1, R1 and U1 in this order, was returned as U1
\* with the first and the third and R1 with the second
C22_Witness ==
  /\ interpreted.status = "Ok"
  /\ [j \in 1..Len(icontent.pins) |-> icontent.pins[j].refdes]
       = <<<<"U", "1">>, <<"R", "1">>, <<"U", "1">>>>
  /\ [j \in 1..3 |-> icontent.pins[j].pin_number] = <<<<"1">>, <<"2">>, <<"3">>>>
  /\ DOMAIN interpreted.footprints = {<<"U", "1">>, <<"R", "1">>}
  /\ [j \in 1..2 |-> interpreted.footprints[<<"U", "1">>].pins[j].number] = <<<<"1">>, <<"3">>>>
  /\ Len(interpreted.footprints[<<"R", "1">>].pins) = 1

\* d1 - d2 as a value, with no limit on the digits
ExactDiff(d1, d2) == ExactAdd(d1, Negated(d2))

\* the pins of the footprint k keep the order, the name, the number and the
\* radius_mm they had in the group k of the first loop
PinsKept(k) ==
  /\ Len(footprints[k].pins) = Len(footprint_pins[k])
  /\ \A j \in 1..Len(footprints[k].pins) :
       /\ footprints[k].pins[j].name = footprint_pins[k][j].name
       /\ footprints[k].pins[j].number = footprint_pins[k][j].number
       /\ footprints[k].pins[j].radius_mm = footprint_pins[k][j].radius_mm

\* what centering changed of the difference between the pins i and j of k, in x
\* and in y
DriftX(k, i, j) ==
  ExactDiff(ExactDiff(footprints[k].pins[i].x_mm, footprints[k].pins[j].x_mm),
            ExactDiff(footprint_pins[k][i].x_mm, footprint_pins[k][j].x_mm))

DriftY(k, i, j) ==
  ExactDiff(ExactDiff(footprints[k].pins[i].y_mm, footprints[k].pins[j].y_mm),
            ExactDiff(footprint_pins[k][i].y_mm, footprint_pins[k][j].y_mm))

\* C30 as the specification states it: in every footprint inserted the pins keep
\* their order, name, number and radius_mm, and the difference between the
\* coordinates of any two of them is exactly what it was before centering.  Pins
\* at x = 100, -100 and 1 refute the second part: 100 - 1/3 brought to 28
\* decimal places has more digits than a Decimal holds.
C30_DifferencesExact ==
  \A k \in DOMAIN footprints :
    /\ PinsKept(k)
    /\ \A i, j \in 1..Len(footprints[k].pins) :
         DriftX(k, i, j).mantissa = <<>> /\ DriftY(k, i, j).mantissa = <<>>

\* the Decimal mean of the coordinates ds
MeanOf(ds) == DecDivNat(Sum(ds, Len(ds)), Len(ds))

\* the offsets of the footprint k come from the pins of its own group
OwnOffset(k) ==
  LET xs == [j \in 1..Len(footprint_pins[k]) |-> footprint_pins[k][j].x_mm]
      ys == [j \in 1..Len(footprint_pins[k]) |-> footprint_pins[k][j].y_mm]
  IN  \A j \in 1..Len(footprints[k].pins) :
        /\ footprints[k].pins[j].x_mm = DecSub(xs[j], MeanOf(xs))
        /\ footprints[k].pins[j].y_mm = DecSub(ys[j], MeanOf(ys))

\* C30, amended: in every footprint inserted the pins keep their order, name,
\* number and radius_mm; the x_mm and y_mm of each is what it was minus the
\* Decimal mean of the pins of this footprint alone; and the difference between
\* the coordinates of any two of them is what it was before centering up to the
\* rounding of these subtractions, below 10^-22 for the coordinates of the model.
C30_OwnOffsetUpToRounding ==
  \A k \in DOMAIN footprints :
    /\ PinsKept(k)
    /\ OwnOffset(k)
    /\ \A i, j \in 1..Len(footprints[k].pins) :
         Below(DriftX(k, i, j), 22) /\ Below(DriftY(k, i, j), 22)

\* U1 was returned from pins at x = 100, -100 and 1 in millimeters,
\* which keep their numbers 1, 4, 3 and their radii, and the difference between
\* the first and the third is no longer 99
C30_Witness ==
  /\ interpreted.status = "Ok"
  /\ icontent.units = "Millimeters"
  /\ DOMAIN footprints = {<<"U", "1">>}
  /\ [j \in 1..Len(icontent.pins) |-> icontent.pins[j].pin_x]
       = <<Signed(FALSE, 100, 0), Signed(TRUE, 100, 0), Signed(FALSE, 1, 0)>>
  /\ [j \in 1..3 |-> footprints[<<"U", "1">>].pins[j].number] = <<<<"1">>, <<"4">>, <<"3">>>>
  /\ [j \in 1..3 |-> footprints[<<"U", "1">>].pins[j].radius_mm]
       = <<Wide(Signed(FALSE, 5, 1)), Wide(Signed(FALSE, 25, 2)), Wide(Signed(FALSE, 1, 1))>>
  /\ DriftX(<<"U", "1">>, 1, 3).mantissa # <<>>

(***************************************************************************)
(* More properties of the container decoder (SpecDecode)                   *)
(***************************************************************************)
\* C23 as the specification states it: decode makes three trials at most, the
\* k-th with the k-th candidate and so none twice, and it ends either in success
\* or in failure after the three candidates have failed.  A file of four bytes
\* refutes the end: the plaintext trial panics and decode unwinds with the keys
\* untried.
C23_SuccessOrExhaustion ==
  /\ Len(trials) <= NCandidates
  /\ \A k \in 1..Len(trials) : trials[k].key = <<"none", "FZ", "CAE">>[k]
  /\ Decoded =>
       \/ dresult.status = "Ok"
       \/ /\ dresult.status = "Err"
          /\ Len(trials) = NCandidates
          /\ \A k \in 1..NCandidates : trials[k].outcome = "Err"

\* C24 as the specification states it: for a file of fewer than 5 bytes decode
\* returns an error value after its three trials and does not panic.  The read
\* of the byte at offset 4 refutes it.
C24_ShortInputIsError ==
  (Decoded /\ Len(raw) < 5) =>
    (dresult.status = "Err" /\ Len(trials) = NCandidates)

\* C28: when the three trials all end in error values, decode returns an error
\* value and its error is that of the third trial, the one with key B (CAE),
\* whatever the errors of the plaintext trial and of the key-A trial were.
C28_LastErrorReturned ==
  (Len(trials) = NCandidates /\ \A k \in 1..NCandidates : trials[k].outcome = "Err") =>
    /\ trials[NCandidates].key = "CAE"
    /\ dresult.status = "Err"
    /\ dresult.err = trials[NCandidates].err
    /\ dresult.content = <<>> /\ dresult.description = <<>>

\* the three trials failed, the plaintext one on the decompressed size and the
\* key-B one on the magic byte, and decode returned the magic error
C28_Witness ==
  /\ Len(trials) = NCandidates
  /\ trials[1].outcome = "Err" /\ trials[1].err = SizeMismatch
  /\ trials[2].outcome = "Err"
  /\ trials[3].outcome = "Err" /\ trials[3].err = InvalidMagic
  /\ dresult.status = "Err" /\ dresult.err = InvalidMagic

\* the states whose S rows make a record
RecordStates == {"Symbol", "Pin", "TestVia", "GraphicData", "ClassedGraphicData"}

\* the sequence of the locals p that holds the records of the state
SequenceOf(p, state) ==
  CASE state = "Symbol" -> p.symbols
    [] state = "Pin" -> p.pins
    [] state = "TestVia" -> p.testvias
    [] state = "GraphicData" -> p.graphic_data
    [] state = "ClassedGraphicData" -> p.classed_graphic_data

\* field 1 of the row a record was made of
FirstField(state, record) ==
  CASE state = "Symbol" -> record.refdes
    [] state = "Pin" -> record.net_name
    [] state = "TestVia" -> record.testvia
    [] state = "GraphicData" -> record.graphic_data_name
    [] state = "ClassedGraphicData" -> record.class

\* an A row that sets the state: any A row but UNIT, LOGOInfo and UnDrawSym
StateSetting(record) ==
  IsAnnotation(record) /\ ~IsSubAnnotation(record)
  /\ record[2] # <<"U", "N", "I", "T">>

\* the state an A row named name sets
SectionNamed(name) ==
  CASE name = <<"R", "E", "F", "D", "E", "S">> -> "Symbol"
    [] name = <<"N", "E", "T", "_", "N", "A", "M", "E">> -> "Pin"
    [] name = <<"V", "I", "A", "I", "D">> -> "Via"
    [] name = <<"T", "E", "S", "T", "V", "I", "A">> -> "TestVia"
    [] name = <<"G", "R", "A", "P", "H", "I", "C", "_", "D", "A", "T", "A", "_",
                "N", "A", "M", "E">> -> "GraphicData"
    [] name = <<"C", "L", "A", "S", "S">> -> "ClassedGraphicData"
    [] OTHER -> "Unknown"

\* the rows read before row k that set the state
SettersBefore(k) == {j \in 1..(k - 1) : StateSetting(hist[j].row)}

\* the state set by the most recent state-setting A row before row k, Unknown
\* when there is none
SectionAt(k) ==
  IF SettersBefore(k) = {} THEN "Unknown"
  ELSE SectionNamed(
         hist[CHOOSE j \in SettersBefore(k) :
                \A i \in SettersBefore(k) : i <= j].row[2])

\* the locals once row k had been read
LocalsAfter(k) == IF k = Len(hist) THEN Locals ELSE hist[k + 1].before

\* an S row with the fields its state reads, the numbers among them well formed
WellFormedRow(state, row) ==
  /\ IsData(row)
  /\ state \in RecordStates
  /\ Len(row) >= FieldsRead(state)
  /\ ~Malformed(state, row)

\* the well-formed S rows read in the state, in the order they were read
RowsReadIn(state) ==
  SelectSeq(hist, LAMBDA e : e.before.state = state /\ WellFormedRow(state, e.row))

\* C25: an S row is read in the state set by the most recent state-setting A
\* row, however many rows earlier; in state Symbol, Pin, TestVia, GraphicData or
\* ClassedGraphicData a well-formed S row appends exactly one record to the end
\* of that kind's sequence and leaves the other four sequences, the state and
\* the unit as they were; so each sequence lists its records in the order of
\* their rows.
C25_DataRowAppendsInOrder ==
  /\ \A k \in 1..Len(hist) :
       IsData(hist[k].row) =>
         /\ hist[k].before.state = SectionAt(k)
         /\ WellFormedRow(SectionAt(k), hist[k].row) =>
              /\ LocalsAfter(k).status \in {"running", "Ok"}
              /\ Len(SequenceOf(LocalsAfter(k), SectionAt(k)))
                   = Len(SequenceOf(hist[k].before, SectionAt(k))) + 1
              /\ SubSeq(SequenceOf(LocalsAfter(k), SectionAt(k)), 1,
                        Len(SequenceOf(hist[k].before, SectionAt(k))))
                   = SequenceOf(hist[k].before, SectionAt(k))
              /\ \A other \in RecordStates \ {SectionAt(k)} :
                   SequenceOf(LocalsAfter(k), other)
                     = SequenceOf(hist[k].before, other)
              /\ LocalsAfter(k).state = hist[k].before.state
              /\ LocalsAfter(k).units = hist[k].before.units
  /\ \A state \in RecordStates :
       /\ Len(SequenceOf(Locals, state)) = Len(RowsReadIn(state))
       /\ \A j \in 1..Len(RowsReadIn(state)) :
            FirstField(state, SequenceOf(Locals, state)[j])
              = RowsReadIn(state)[j].row[2]

\* after A!NET_NAME the rows S!N1!.. and S!N2!.. were read: the second one was
\* read as a pin two rows after the A row, and the pins are N1, N2 in this order
C25_Witness ==
  /\ Len(hist) = 3
  /\ hist[1].row = <<<<"A">>, <<"N", "E", "T", "_", "N", "A", "M", "E">>>>
  /\ IsData(hist[2].row) /\ IsData(hist[3].row)
  /\ Len(pins) = 2
  /\ pins[1].net_name = <<"N", "1">>
  /\ pins[2].net_name = <<"N", "2">>
  /\ pstate = "Pin"
  /\ symbols = <<>> /\ testvias = <<>>

\* the UNIT rows of the document read
UnitRows == {k \in 1..Len(hist) : IsUnitRow(hist[k].row)}

\* field 2 of the only UNIT row
OnlyUnitField == hist[CHOOSE k \in UnitRows : TRUE].row[3]

\* C26: of a document with at most one UNIT row the parsed unit is Mils when
\* there is no UNIT row or when field 2 of the UNIT row is exactly "mils", and
\* Millimeters for any other field 2, "MILS", "mm" and the empty field included.
C26_UnitOfSingleUnitRow ==
  (presult.status = "Ok" /\ Cardinality(UnitRows) <= 1) =>
    /\ UnitRows = {} => parsed.units = "Mils"
    /\ UnitRows # {} =>
         /\ OnlyUnitField = <<"m", "i", "l", "s">> => parsed.units = "Mils"
         /\ OnlyUnitField # <<"m", "i", "l", "s">> => parsed.units = "Millimeters"
         /\ OnlyUnitField \in {<<"M", "I", "L", "S">>, <<"m", "m">>, <<>>} =>
              parsed.units = "Millimeters"

\* a document of three rows was parsed whose only UNIT row is A!UNIT!MILS, read
\* after a pin row: the parsed unit is Millimeters
C26_Witness ==
  /\ presult.status = "Ok"
  /\ Len(hist) = 3
  /\ UnitRows = {3}
  /\ hist[3].row[3] = <<"M", "I", "L", "S">>
  /\ Len(parsed.pins) = 1
  /\ parsed.units = "Millimeters"

\* C27: an A!UNIT row changes the unit only: it leaves the state and the five
\* record sequences as they were, and the S row read after it leaves the state
\* and the sequences it would have left had it been read in the place of the
\* UNIT row, in the section that was current before it.
C27_UnitRowKeepsSection ==
  \A k \in 1..Len(hist) :
    IsUnitRow(hist[k].row) =>
      /\ LocalsAfter(k).state = hist[k].before.state
      /\ Sequences5(LocalsAfter(k)) = Sequences5(hist[k].before)
      /\ LocalsAfter(k).units = NamedUnit(hist[k].row)
      /\ LocalsAfter(k).status \in {"running", "Ok"}
      /\ (k < Len(hist) /\ IsData(hist[k + 1].row)) =>
           LET expected == AfterRecord(hist[k].before, hist[k + 1].row)
           IN  /\ hist[k + 1].before.state = SectionAt(k)
               /\ LocalsAfter(k + 1).state = expected.state
               /\ Sequences5(LocalsAfter(k + 1)) = Sequences5(expected)
               /\ LocalsAfter(k + 1).units = NamedUnit(hist[k].row)
               /\ LocalsAfter(k + 1).err = expected.err
               /\ IF expected.status = "running"
                    THEN LocalsAfter(k + 1).status \in {"running", "Ok"}
                  ELSE LocalsAfter(k + 1).status = expected.status

\* A!NET_NAME, A!UNIT!mm, S!N1!U1!..: the S row made a Pin, in millimeters
C27_Witness ==
  /\ Len(hist) = 3
  /\ hist[1].row = <<<<"A">>, <<"N", "E", "T", "_", "N", "A", "M", "E">>>>
  /\ hist[2].row = <<<<"A">>, <<"U", "N", "I", "T">>, <<"m", "m">>>>
  /\ IsData(hist[3].row)
  /\ hist[2].before.state = "Pin"
  /\ pstate = "Pin"
  /\ units = "Millimeters"
  /\ Len(pins) = 1
  /\ pins[1].net_name = <<"N", "1">>
  /\ symbols = <<>>

\* C29: from_bytes starts in state Unknown with unit Mils and no record; an S
\* row read before any state-setting A row, and a row whose field 0 is neither
\* A nor S, leaves the state, the unit and the five record sequences as they
\* were and raises no error, however few fields it has.
C29_StartsUnknownAndIgnoresRows ==
  /\ Len(hist) = 0 =>
       Parsed(Locals) = <<"Unknown", "Mils", <<<<>>, <<>>, <<>>, <<>>, <<>>>>>>
  /\ \A k \in 1..Len(hist) :
       /\ k = 1 => Parsed(hist[k].before)
                     = <<"Unknown", "Mils", <<<<>>, <<>>, <<>>, <<>>, <<>>>>>>
       /\ ((IsData(hist[k].row) /\ SettersBefore(k) = {})
           \/ (Len(hist[k].row) > 0 /\ hist[k].row[1] \notin {<<"A">>, <<"S">>}))
          => /\ Parsed(LocalsAfter(k)) = Parsed(hist[k].before)
             /\ LocalsAfter(k).status \in {"running", "Ok"}
             /\ LocalsAfter(k).err = ""

\* the document S!N1!U1!.., J!1, A!NET_NAME was parsed: the pin row came before
\* any section and J!1 is no row of the format, so that no record was made
C29_Witness ==
  /\ presult.status = "Ok"
  /\ Len(hist) = 3
  /\ Len(hist[1].row) = 9 /\ IsData(hist[1].row)
  /\ hist[2].row = <<<<"J">>, <<"1">>>>
  /\ hist[3].row = <<<<"A">>, <<"N", "E", "T", "_", "N", "A", "M", "E">>>>
  /\ hist[3].before.state = "Unknown"
  /\ Sequences5(Locals) = <<<<>>, <<>>, <<>>, <<>>, <<>>>>
  /\ parsed.pins = <<>>

(***************************************************************************)
(* The two copies of the cipher (SpecTwin)                                 *)
(***************************************************************************)
\* the first n bytes of a buffer
Prefix(bytes, n) == SubSeq(bytes, 1, n)

\* C31: the schedules decoder.rs holds are those of crypto.rs, word for word;
\* on every input and key decoder.rs decrypt returns the bytes crypto.rs decrypt
\* returns, as many as the input has; and output byte i depends on the input
\* bytes 0..i only: the bytes crypto.rs decrypt has written after i passes of
\* its loop, which has read no later input byte, are the first i bytes
\* decoder.rs decrypt returns, and decoder.rs decrypt on the input without its
\* last byte returns the same bytes without the last, and on each prefix of a
\* short input the prefix of its bytes (the longer inputs checked are closed
\* under dropping the last byte, so that this reaches every prefix of theirs).
C31_DecoderDecryptIsCryptoDecrypt ==
  /\ DECODER_FZ_EXPANDED_KEY = FZ_EXPANDED_KEY
  /\ DECODER_CAE_EXPANDED_KEY = CAE_EXPANDED_KEY
  /\ dec_result.status \in {"ready", "returned"} => dec_key = ckey
  /\ dec_result.status = "returned" =>
       /\ Len(dec_result.bytes) = Len(cenc)
       /\ cdec = Prefix(dec_result.bytes, cpos)
       /\ cphase = "done" => dec_result.bytes = cdec
       /\ (cphase = "done" /\ Len(cenc) > 0) =>
            Prefix(dec_result.bytes, Len(cenc) - 1)
              = DecoderDecrypt(Prefix(cenc, Len(cenc) - 1), dec_key)
       /\ (cphase = "done" /\ Len(cenc) <= Len(TestData)) =>
            \A n \in 0..Len(cenc) :
              Prefix(dec_result.bytes, n) = DecoderDecrypt(Prefix(cenc, n), dec_key)

\* both copies have returned on an input of 18 bytes, longer than the register,
\* under the FZ schedule: the same 18 bytes, which are not the input
C31_Witness ==
  /\ cphase = "done"
  /\ dec_result.status = "returned"
  /\ Len(cenc) = 18
  /\ ckey = FZ_EXPANDED_KEY
  /\ dec_key = DECODER_FZ_EXPANDED_KEY
  /\ dec_result.bytes = cdec
  /\ cdec # cenc
====
